---- MODULE Spec2Model ----
(***************************************************************************)
(* Workspace file editing of studykb-mcp: WorkspaceService over a          *)
(* HistoryService and an EditStrategy, on a file system.                   *)
(*                                                                         *)
(* Strings are sequences of one-character strings, so that prefix tests,   *)
(* suffix changes and string formatting are computed as the code computes  *)
(* them.  A path is the sequence of its components (pathlib's parts); the  *)
(* file system maps canonical absolute paths to nodes.                     *)
(***************************************************************************)
EXTENDS Integers, Sequences, FiniteSets, TLC

VARIABLES
    fs,      \* the file system: canonical path -> node (dir, text file, ledger)
    now,     \* the wall clock, in milliseconds (time.time() * 1000)
    last,    \* the last call: its operation, arguments, exception and result
    trail    \* a scripted run's calls so far, or the frame of the call in flight
             \* where calls run step by step (empty where the calls are free)

vars == <<fs, now, last, trail>>

\* ------------------------------------------------------------- bounds

\* settings.max_history_versions, scaled down
MaxVersions == 2
\* the clock runs from 1 to MaxTime
MaxTime == 3
\* settings.max_file_size (bytes), scaled down
MaxFileSize == 3
\* settings.max_read_lines, scaled down
MaxReadLines == 1

\* ------------------------------------------------------------ strings

None == <<>>
Some(x) == <<x>>

\* a local variable: Let([x \in {v} |-> e]) is e with x naming the value v,
\* computed once
Let(fn) == fn[CHOOSE x \in DOMAIN fn : TRUE]

Max(a, b) == IF a >= b THEN a ELSE b
Min(a, b) == IF a <= b THEN a ELSE b

StartsWith(s, p) == Len(p) <= Len(s) /\ SubSeq(s, 1, Len(p)) = p

RECURSIVE split(_, _)
\* str.split(sep) for a one-character separator
split(s, sep) ==
    IF \A i \in 1..Len(s) : s[i] # sep
    THEN <<s>>
    ELSE LET i == CHOOSE k \in 1..Len(s) :
                      s[k] = sep /\ \A j \in 1..(k - 1) : s[j] # sep
         IN  <<SubSeq(s, 1, i - 1)>> \o split(SubSeq(s, i + 1, Len(s)), sep)

RECURSIVE count_from(_, _, _)
count_from(s, a, i) ==
    IF i + Len(a) - 1 > Len(s) THEN 0
    ELSE IF SubSeq(s, i, i + Len(a) - 1) = a THEN 1 + count_from(s, a, i + Len(a))
    ELSE count_from(s, a, i + 1)

\* s.count(a): the non-overlapping occurrences of a
str_count(s, a) == IF a = <<>> THEN Len(s) + 1 ELSE count_from(s, a, 1)

RECURSIVE replace_from(_, _, _, _)
replace_from(s, a, b, i) ==
    IF i > Len(s) THEN <<>>
    ELSE IF i + Len(a) - 1 <= Len(s) /\ SubSeq(s, i, i + Len(a) - 1) = a
    THEN b \o replace_from(s, a, b, i + Len(a))
    ELSE <<s[i]>> \o replace_from(s, a, b, i + 1)

RECURSIVE interleave(_, _)
interleave(s, b) == IF s = <<>> THEN b ELSE b \o <<Head(s)>> \o interleave(Tail(s), b)

\* s.replace(a, b)
str_replace(s, a, b) == IF a = <<>> THEN interleave(s, b) ELSE replace_from(s, a, b, 1)

RECURSIVE utf8_len(_)
\* len(s.encode("utf-8")): "U+E9", the one non-ASCII character of the alphabet
\* (e with an acute accent), takes 2 bytes
utf8_len(s) ==
    IF s = <<>> THEN 0
    ELSE (IF Head(s) = "U+E9" THEN 2 ELSE 1) + utf8_len(Tail(s))

\* s.count("\n")
count_newlines(s) == Cardinality({i \in 1..Len(s) : s[i] = "\n"})

Digit(d) == CASE d = 0 -> "0" [] d = 1 -> "1" [] d = 2 -> "2" [] d = 3 -> "3"
              [] d = 4 -> "4" [] d = 5 -> "5" [] d = 6 -> "6" [] d = 7 -> "7"
              [] d = 8 -> "8" [] d = 9 -> "9"

RECURSIVE int_str(_)
\* str(n) for n >= 0
int_str(n) == IF n < 10 THEN <<Digit(n)>> ELSE int_str(n \div 10) \o <<Digit(n % 10)>>

\* -------------------------------------------------------------- paths

DOTDOT == <<".", ".">>

\* the parts of a path string: empty components and "." are dropped, ".." is kept
parts(s) == SelectSeq(split(s, "/"), LAMBDA c : c # <<>> /\ c # <<".">>)

is_absolute(s) == Len(s) > 0 /\ s[1] = "/"

\* base / s
joinpath(base, s) == IF is_absolute(s) THEN parts(s) ELSE base \o parts(s)

RECURSIVE str_path(_)
\* str(path) of an absolute path
str_path(p) == IF p = <<>> THEN <<>> ELSE <<"/">> \o Head(p) \o str_path(Tail(p))

parent(p) == IF p = <<>> THEN <<>> ELSE SubSeq(p, 1, Len(p) - 1)

RECURSIVE resolve_from(_, _)
resolve_from(cur, rest) ==
    IF rest = <<>> THEN cur
    ELSE IF Head(rest) = DOTDOT THEN resolve_from(parent(cur), Tail(rest))
    ELSE resolve_from(Append(cur, Head(rest)), Tail(rest))

\* Path.resolve(): ".." is folded away (there are no symbolic links)
resolve(p) == resolve_from(<<>>, p)

\* PurePath.suffix of a file name
name_suffix(name) ==
    LET dots == {i \in 1..Len(name) : name[i] = "."}
        i == IF dots = {} THEN 0 ELSE CHOOSE k \in dots : \A j \in dots : j <= k
    IN  IF 1 < i /\ i < Len(name) THEN SubSeq(name, i, Len(name)) ELSE <<>>

\* Path.with_suffix(suffix)
with_suffix(p, suffix) ==
    LET name == p[Len(p)]
        stem == SubSeq(name, 1, Len(name) - Len(name_suffix(name)))
    IN  Append(parent(p), stem \o suffix)

\* -------------------------------------------------------- file system

Dir == [t |-> "dir"]
Txt(c) == [t |-> "txt", c |-> c]
Json(meta) == [t |-> "json", meta |-> meta]
\* a file whose bytes are not valid UTF-8
Bin == [t |-> "bin"]

EmptyFS == [p \in {} |-> Dir]

is_dir_at(f, k) == k = <<>> \/ (k \in DOMAIN f /\ f[k].t = "dir")

RECURSIVE kwalk_from(_, _, _)
kwalk_from(f, cur, rest) ==
    IF rest = <<>> THEN Some(cur)
    ELSE IF ~is_dir_at(f, cur) THEN None
    ELSE IF Head(rest) = DOTDOT THEN kwalk_from(f, parent(cur), Tail(rest))
    ELSE kwalk_from(f, Append(cur, Head(rest)), Tail(rest))

\* the kernel's path lookup: every component walked through must be a directory
kwalk(f, p) == kwalk_from(f, <<>>, p)

\* os.path.exists(p)
path_exists(f, p) ==
    Let([k \in {kwalk(f, p)} |-> k # None /\ (k[1] = <<>> \/ k[1] \in DOMAIN f)])

\* os.path.isdir(p)
path_isdir(f, p) ==
    Let([k \in {kwalk(f, p)} |-> k # None /\ is_dir_at(f, k[1])])

RECURSIVE makedirs_from(_, _, _)
makedirs_from(f, cur, rest) ==
    IF rest = <<>> THEN [exc |-> "", fs |-> f]
    ELSE IF Head(rest) = DOTDOT THEN makedirs_from(f, parent(cur), Tail(rest))
    ELSE Let([nxt \in {Append(cur, Head(rest))} |->
         IF nxt \in DOMAIN f
         THEN IF f[nxt].t = "dir" THEN makedirs_from(f, nxt, Tail(rest))
              ELSE [exc |-> "OSError", fs |-> f]
         ELSE makedirs_from((nxt :> Dir) @@ f, nxt, Tail(rest))])

\* os.makedirs(p, exist_ok=True)
makedirs(f, p) == makedirs_from(f, <<>>, p)

\* open(p, "w") and write: the file is created or truncated, then holds node
write_node(f, p, node) ==
    Let([k \in {kwalk(f, p)} |->
    IF k = None \/ ~is_dir_at(f, parent(k[1])) \/ is_dir_at(f, k[1])
    THEN [exc |-> "OSError", fs |-> f]
    ELSE [exc |-> "", fs |-> (k[1] :> node) @@ f]])

\* open(p, "r", encoding="utf-8"): the node read, or the exception
read_node(f, p) ==
    Let([k \in {kwalk(f, p)} |->
    IF k = None \/ (k[1] # <<>> /\ k[1] \notin DOMAIN f)
    THEN [exc |-> "FileNotFoundError"]
    ELSE IF is_dir_at(f, k[1]) THEN [exc |-> "OSError"]
    ELSE IF f[k[1]].t = "bin" THEN [exc |-> "UnicodeDecodeError"]
    ELSE [exc |-> "", node |-> f[k[1]]]])

RECURSIVE universal_newlines(_)
\* what a text-mode read returns: "\r\n" and a lone "\r" are read as "\n"
universal_newlines(s) ==
    IF s = <<>> THEN <<>>
    ELSE IF Head(s) = "\r"
    THEN <<"\n">> \o universal_newlines(
             IF Len(s) > 1 /\ s[2] = "\n" THEN SubSeq(s, 3, Len(s)) ELSE Tail(s))
    ELSE <<Head(s)>> \o universal_newlines(Tail(s))

\* open(p, "r", encoding="utf-8") and f.read() of a text file
read_text(f, p) ==
    Let([r \in {read_node(f, p)} |->
    IF r.exc # "" THEN r ELSE [exc |-> "", text |-> universal_newlines(r.node.c)]])

\* os.remove(p)
remove_node(f, p) ==
    Let([k \in {kwalk(f, p)} |->
    IF k = None \/ k[1] \notin DOMAIN f \/ is_dir_at(f, k[1])
    THEN [exc |-> "OSError", fs |-> f]
    ELSE [exc |-> "", fs |-> [x \in DOMAIN f \ {k[1]} |-> f[x]]]])

\* os.replace(src, dst): dst holds what src held and src is gone
replace_node(f, src, dst) ==
    Let([s \in {kwalk(f, src)} |->
    Let([d \in {kwalk(f, dst)} |->
    IF s = None \/ s[1] \notin DOMAIN f
    THEN [exc |-> "FileNotFoundError", fs |-> f]
    ELSE IF d = None \/ ~is_dir_at(f, parent(d[1])) \/ is_dir_at(f, d[1])
              \/ is_dir_at(f, s[1])
    THEN [exc |-> "OSError", fs |-> f]
    ELSE IF s[1] = d[1] THEN [exc |-> "", fs |-> f]
    ELSE [exc |-> "",
          fs |-> [x \in (DOMAIN f \cup {d[1]}) \ {s[1]} |->
                     IF x = d[1] THEN f[s[1]] ELSE f[x]]]])])

\* ----------------------------------------------------- HistoryService

HISTORY_DIR == <<".", "h", "i", "s", "t", "o", "r", "y">>
HISTORY_JSON == <<".", "h", "i", "s", "t", "o", "r", "y", ".", "j", "s", "o", "n">>
SNAPSHOT == <<".", "s", "n", "a", "p", "s", "h", "o", "t">>
TMP == <<".", "t", "m", "p">>

history_root(ws) == joinpath(ws, HISTORY_DIR)

meta_path(ws, file_path) == joinpath(history_root(ws), file_path \o HISTORY_JSON)

snapshot_dir(ws, file_path) == joinpath(history_root(ws), file_path)

\* snap_dir / f"{version_id}.snapshot"
snap_file(ws, file_path, version_id) ==
    joinpath(snapshot_dir(ws, file_path), version_id \o SNAPSHOT)

read_meta(f, ws, file_path) ==
    Let([mp \in {meta_path(ws, file_path)} |->
    IF ~path_exists(f, mp)
    THEN [exc |-> "", meta |-> [file_path |-> file_path, versions |-> <<>>]]
    ELSE Let([r \in {read_node(f, mp)} |->
         IF r.exc # "" THEN [exc |-> r.exc]
         ELSE IF r.node.t # "json" THEN [exc |-> "JSONDecodeError"]
         ELSE [exc |-> "", meta |-> r.node.meta]])])

write_meta(f, ws, file_path, meta) ==
    Let([mp \in {meta_path(ws, file_path)} |->
    Let([d \in {makedirs(f, parent(mp))} |->
    IF d.exc # "" THEN d ELSE
    Let([tmp \in {with_suffix(mp, TMP)} |->
    Let([w \in {write_node(d.fs, tmp, Json(meta))} |->
    IF w.exc # "" THEN w ELSE
    replace_node(w.fs, tmp, mp)])])])])

RECURSIVE remove_snapshots(_, _, _, _)
\* the loop of _prune_old_versions: a snapshot that is missing or cannot be
\* removed is passed over
remove_snapshots(f, ws, file_path, to_remove) ==
    IF to_remove = <<>> THEN f
    ELSE Let([sf \in {snap_file(ws, file_path, Head(to_remove).version_id)} |->
         remove_snapshots(IF path_exists(f, sf) THEN remove_node(f, sf).fs ELSE f,
                          ws, file_path, Tail(to_remove))])

\* a faulty pruning: the ledger is cut at the cap and the blobs are left behind
prune_keeping_blobs(f, ws, file_path, meta) ==
    [fs |-> f,
     meta |-> [meta EXCEPT !.versions = SubSeq(@, 1, Min(Len(@), MaxVersions))]]

prune_old_versions(f, ws, file_path, meta) ==
    LET versions == meta.versions IN
    IF Len(versions) <= MaxVersions
    THEN [fs |-> f, meta |-> meta]
    ELSE [fs |-> remove_snapshots(f, ws, file_path,
                     SubSeq(versions, MaxVersions + 1, Len(versions))),
          meta |-> [meta EXCEPT !.versions = SubSeq(versions, 1, MaxVersions)]]

\* the entry save_snapshot builds; its "timestamp", a rendering of the clock for
\* people, is left out, and the Chinese descriptions are given in English
version_entry(version_id, content, operation, description) ==
    [version_id |-> version_id,
     operation |-> operation,
     description |-> description,
     size |-> utf8_len(content),
     lines |-> IF content # <<>> THEN count_newlines(content) + 1 ELSE 0]

\* a faulty save_snapshot: the entry is put last in the ledger, not first
save_snapshot_appending(f, ws, file_path, content, operation, description, t) ==
    Let([version_id \in {int_str(t)} |->
    Let([d \in {makedirs(f, snapshot_dir(ws, file_path))} |->
    IF d.exc # "" THEN d ELSE
    Let([w \in {write_node(d.fs, snap_file(ws, file_path, version_id), Txt(content))} |->
    IF w.exc # "" THEN w ELSE
    Let([m \in {read_meta(w.fs, ws, file_path)} |->
    IF m.exc # "" THEN [exc |-> m.exc, fs |-> w.fs] ELSE
    Let([entry \in {version_entry(version_id, content, operation, description)} |->
    Let([p \in {prune_old_versions(w.fs, ws, file_path,
                            [m.meta EXCEPT !.versions = @ \o <<entry>>])} |->
    write_meta(p.fs, ws, file_path, p.meta)])])])])])])

\* save_snapshot, with t the clock it reads
save_snapshot(f, ws, file_path, content, operation, description, t) ==
    Let([version_id \in {int_str(t)} |->
    Let([d \in {makedirs(f, snapshot_dir(ws, file_path))} |->
    IF d.exc # "" THEN d ELSE
    Let([w \in {write_node(d.fs, snap_file(ws, file_path, version_id), Txt(content))} |->
    IF w.exc # "" THEN w ELSE
    Let([m \in {read_meta(w.fs, ws, file_path)} |->
    IF m.exc # "" THEN [exc |-> m.exc, fs |-> w.fs] ELSE
    Let([entry \in {version_entry(version_id, content, operation, description)} |->
    Let([p \in {prune_old_versions(w.fs, ws, file_path,
                            [m.meta EXCEPT !.versions = <<entry>> \o @])} |->
    write_meta(p.fs, ws, file_path, p.meta)])])])])])])

list_versions(f, ws, file_path) ==
    Let([m \in {read_meta(f, ws, file_path)} |->
    IF m.exc # "" THEN m ELSE [exc |-> "", ret |-> m.meta.versions]])

get_version_content(f, ws, file_path, version_id) ==
    Let([sf \in {snap_file(ws, file_path, version_id)} |->
    IF ~path_exists(f, sf) THEN [exc |-> "FileNotFoundError"] ELSE
    Let([r \in {read_text(f, sf)} |->
    IF r.exc # "" THEN [exc |-> r.exc]
    ELSE [exc |-> "", ret |-> r.text]])])

\* ------------------------------------------------------- EditStrategy

CRLF == <<"\r", "\n">>
LF == <<"\n">>

\* the characters \s matches, of the alphabet
WHITESPACE == {" ", "\t", "\n", "\r", "\f"}

\* the characters \w matches, of the alphabet
WORD_CHARS == {"a", "b", "c", "d", "n", "s", "t", "x", "y", "U+E9", "0", "1", "2", "_"}

\* the characters re.escape puts a backslash before
RE_SPECIAL == {"(", ")", "[", "]", "{", "}", "?", "*", "+", "-", "|", "^", "$",
               "\\", ".", "&", "~", "#", " ", "\t", "\n", "\r", "\f"}

detect_line_ending(content) == IF str_count(content, CRLF) > 0 THEN CRLF ELSE LF

\* a faulty _restore_line_ending: the normalized content is returned as it is
restore_line_ending_never(content, eol) == content

restore_line_ending(content, eol) ==
    IF eol = CRLF THEN str_replace(content, LF, CRLF) ELSE content

RECURSIVE re_escape(_)
re_escape(s) ==
    IF s = <<>> THEN <<>>
    ELSE (IF Head(s) \in RE_SPECIAL THEN <<"\\", Head(s)>> ELSE <<Head(s)>>)
         \o re_escape(Tail(s))

RECURSIVE sub_runs_from(_, _, _)
sub_runs_from(p, c, i) ==
    IF i > Len(p) THEN <<>>
    ELSE IF i < Len(p) /\ p[i] = "\\" /\ p[i + 1] = c
    THEN LET pair(k) == i + 2 * k + 1 <= Len(p) /\ p[i + 2 * k] = "\\"
                        /\ p[i + 2 * k + 1] = c
             n == CHOOSE k \in 1..Len(p) : (\A j \in 0..(k - 1) : pair(j)) /\ ~pair(k)
         IN  <<"\\", "s", "+">> \o sub_runs_from(p, c, i + 2 * n)
    ELSE <<p[i]>> \o sub_runs_from(p, c, i + 1)

\* re.sub(r"(\\c)+", r"\\s+", p): each maximal run of a backslash followed by the
\* character c becomes \s+
sub_runs(p, c) == sub_runs_from(p, c, 1)

create_whitespace_flexible_regex(text) ==
    sub_runs(sub_runs(sub_runs(re_escape(text), " "), "t"), "n")

RECURSIVE tokenize(_)
\* re.findall(r"[\w\d]+|[^\w\d\s]", text)
tokenize(s) ==
    IF s = <<>> THEN <<>>
    ELSE IF Head(s) \in WORD_CHARS
    THEN LET n == CHOOSE k \in 1..Len(s) :
                      /\ \A j \in 1..k : s[j] \in WORD_CHARS
                      /\ (k = Len(s) \/ s[k + 1] \notin WORD_CHARS)
         IN  <<SubSeq(s, 1, n)>> \o tokenize(SubSeq(s, n + 1, Len(s)))
    ELSE IF Head(s) \in WHITESPACE THEN tokenize(Tail(s))
    ELSE <<<<Head(s)>>>> \o tokenize(Tail(s))

RECURSIVE join_escaped(_)
\* r"\s*".join(re.escape(token) for token in tokens)
join_escaped(tokens) ==
    IF Len(tokens) = 1 THEN re_escape(tokens[1])
    ELSE re_escape(Head(tokens)) \o <<"\\", "s", "*">> \o join_escaped(Tail(tokens))

\* a faulty _create_token_regex: the tokens are not taken apart, the pattern is
\* the whitespace-flexible one
create_token_regex_untokenized(text) == create_whitespace_flexible_regex(text)

create_token_regex(text) ==
    Let([tokens \in {tokenize(text)} |->
    IF tokens = <<>> THEN re_escape(text) ELSE join_escaped(tokens)])

RECURSIVE re_parse(_)
\* the pattern as the re module reads it: a sequence of items, each one character
\* (written plainly or after a backslash) or the class \s, repeated once, + or *
\* times.  The two builders above write nothing else.
re_parse(p) ==
    IF p = <<>> THEN <<>>
    ELSE LET esc == p[1] = "\\" /\ Len(p) >= 2
             n == IF esc THEN 2 ELSE 1
             item == IF esc /\ p[2] = "s" THEN [cls |-> "space", ch |-> ""]
                     ELSE [cls |-> "char", ch |-> p[n]]
             q == IF Len(p) > n /\ p[n + 1] \in {"+", "*"} THEN p[n + 1] ELSE "1"
             m == IF q = "1" THEN n ELSE n + 1
         IN  <<[cls |-> item.cls, ch |-> item.ch, q |-> q]>>
             \o re_parse(SubSeq(p, m + 1, Len(p)))

item_matches(item, c) == IF item.cls = "space" THEN c \in WHITESPACE ELSE c = item.ch

\* how many characters from pos on match the item
run_length(item, text, pos) ==
    CHOOSE n \in 0..(Len(text) - pos + 1) :
        /\ \A j \in 0..(n - 1) : item_matches(item, text[pos + j])
        /\ (pos + n > Len(text) \/ ~item_matches(item, text[pos + n]))

RECURSIVE match_at(_, _, _, _)
RECURSIVE match_repeat(_, _, _, _, _)
\* the end of the match of items k.. at pos (the position after its last
\* character), or -1: repeats are greedy and give back one character at a time
match_at(pat, k, text, pos) ==
    IF k > Len(pat) THEN pos
    ELSE IF pat[k].q = "1"
    THEN IF pos <= Len(text) /\ item_matches(pat[k], text[pos])
         THEN match_at(pat, k + 1, text, pos + 1)
         ELSE -1
    ELSE match_repeat(pat, k, text, pos, run_length(pat[k], text, pos))

match_repeat(pat, k, text, pos, n) ==
    IF n < (IF pat[k].q = "+" THEN 1 ELSE 0) THEN -1
    ELSE Let([e \in {match_at(pat, k + 1, text, pos + n)} |->
         IF e # -1 THEN e ELSE match_repeat(pat, k, text, pos, n - 1)])

RECURSIVE finditer_from(_, _, _)
finditer_from(pat, text, pos) ==
    IF pos > Len(text) + 1 THEN <<>>
    ELSE Let([e \in {match_at(pat, 1, text, pos)} |->
         IF e = -1 THEN finditer_from(pat, text, pos + 1)
         ELSE <<[start |-> pos, end |-> e]>>
              \o finditer_from(pat, text, IF e > pos THEN e ELSE pos + 1)])

\* list(re.finditer(regex, text, re.MULTILINE)): the matches, as the half-open
\* spans of 1-based positions [start, end)
finditer(regex, text) == finditer_from(re_parse(regex), text, 1)

RECURSIVE replace_matches(_, _, _)
\* from the last match to the first
replace_matches(content, matches, replacement) ==
    IF matches = <<>> THEN content
    ELSE Let([m \in {matches[Len(matches)]} |->
         replace_matches(SubSeq(content, 1, m.start - 1) \o replacement
                             \o SubSeq(content, m.end, Len(content)),
                         SubSeq(matches, 1, Len(matches) - 1), replacement)])

\* the length of the preview of old_str in the error report
PreviewLen == 200

\* the report of _format_match_error: the preview and the four counts its text
\* is built from
format_match_error(old_str, counts, expected) ==
    [preview |-> IF Len(old_str) > PreviewLen
                 THEN SubSeq(old_str, 1, PreviewLen) \o <<".", ".", ".">>
                 ELSE old_str,
     exact |-> counts.exact,
     whitespace |-> counts.whitespace,
     token |-> counts.token,
     expected |-> expected]

ReplaceResult(success, content, match_type, error) ==
    [success |-> success, content |-> content, match_type |-> match_type,
     error |-> error]

\* a faulty perform_replacement: any occurrence is enough, whatever count was
\* expected
perform_replacement_any_count(content, old_str, new_str, expected_count) ==
    IF str_count(content, old_str) > 0
    THEN ReplaceResult(TRUE, Some(str_replace(content, old_str, new_str)),
                       Some("exact"), None)
    ELSE ReplaceResult(FALSE, None, None,
             Some(format_match_error(old_str,
                      [exact |-> 0, whitespace |-> 0, token |-> 0],
                      expected_count)))

perform_replacement(content, old_str, new_str, expected_count) ==
    Let([original_eol \in {detect_line_ending(content)} |->
    Let([normalized_content \in {str_replace(content, CRLF, LF)} |->
    Let([normalized_old \in {str_replace(old_str, CRLF, LF)} |->
    Let([normalized_new \in {str_replace(new_str, CRLF, LF)} |->
    Let([exact_count \in {str_count(normalized_content, normalized_old)} |->
    IF exact_count = expected_count
    THEN ReplaceResult(TRUE,
             Some(restore_line_ending(
                 str_replace(normalized_content, normalized_old, normalized_new),
                 original_eol)),
             Some("exact"), None)
    ELSE
    Let([ws_matches \in {finditer(create_whitespace_flexible_regex(normalized_old),
                  normalized_content)} |->
    IF Len(ws_matches) = expected_count
    THEN ReplaceResult(TRUE,
             Some(restore_line_ending(
                 replace_matches(normalized_content, ws_matches, normalized_new),
                 original_eol)),
             Some("whitespace_flexible"), None)
    ELSE
    Let([token_matches \in {finditer(create_token_regex(normalized_old), normalized_content)} |->
    IF Len(token_matches) = expected_count
    THEN ReplaceResult(TRUE,
             Some(restore_line_ending(
                 replace_matches(normalized_content, token_matches, normalized_new),
                 original_eol)),
             Some("token"), None)
    ELSE ReplaceResult(FALSE, None, None,
             Some(format_match_error(normalized_old,
                      [exact |-> exact_count, whitespace |-> Len(ws_matches),
                       token |-> Len(token_matches)],
                      expected_count)))])])])])])])])

\* --------------------------------------------------- WorkspaceService

\* settings.workspaces_path, as an absolute path
workspaces_path == <<<<"w">>>>

get_workspace_path(category, progress_id) ==
    joinpath(joinpath(workspaces_path, category), str_replace(progress_id, <<".">>, <<"_">>))

validate_path(ws, file_path) ==
    Let([full_path \in {resolve(joinpath(ws, file_path))} |->
    Let([workspace_resolved \in {resolve(ws)} |->
    IF ~StartsWith(str_path(full_path), str_path(workspace_resolved))
    THEN [exc |-> "PathEscape"]
    ELSE [exc |-> "", full_path |-> full_path]])])

ensure_workspace(f, category, progress_id) ==
    makedirs(f, get_workspace_path(category, progress_id))

\* the temporary file and the rename of write_file and edit_file
write_atomically(f, full_path, content) ==
    Let([temp_path \in {with_suffix(full_path, TMP)} |->
    Let([w \in {write_node(f, temp_path, Txt(content))} |->
    IF w.exc # "" THEN w ELSE replace_node(w.fs, temp_path, full_path)])])

\* write_file, with t the clock its save_snapshot reads
write_file(f, category, progress_id, file_path, content, t) ==
    IF utf8_len(content) > MaxFileSize THEN [exc |-> "TooLarge", fs |-> f] ELSE
    Let([e \in {ensure_workspace(f, category, progress_id)} |->
    IF e.exc # "" THEN e ELSE
    Let([ws \in {get_workspace_path(category, progress_id)} |->
    Let([v \in {validate_path(ws, file_path)} |->
    IF v.exc # "" THEN [exc |-> v.exc, fs |-> e.fs] ELSE
    Let([d \in {makedirs(e.fs, parent(v.full_path))} |->
    IF d.exc # "" THEN d ELSE
    Let([file_exists \in {path_exists(d.fs, v.full_path)} |->
    Let([old \in {IF file_exists THEN read_text(d.fs, v.full_path)
         ELSE [exc |-> "", text |-> <<>>]} |->
    IF old.exc # "" THEN [exc |-> old.exc, fs |-> d.fs] ELSE
    Let([s1 \in {IF file_exists
         THEN save_snapshot(d.fs, ws, file_path, old.text, "write", "overwritten", t)
         ELSE d} |->
    IF s1.exc # "" THEN s1 ELSE
    Let([w \in {write_atomically(s1.fs, v.full_path, content)} |->
    IF w.exc # "" THEN w
    ELSE IF ~file_exists
    THEN save_snapshot(w.fs, ws, file_path, content, "create", "created", t)
    ELSE w])])])])])])])])

\* delete_file: a failure to read or to snapshot that is a UnicodeDecodeError or
\* an OSError is passed over (FileNotFoundError is an OSError, JSONDecodeError is
\* not)
delete_file(f, category, progress_id, file_path, t) ==
    Let([ws \in {get_workspace_path(category, progress_id)} |->
    Let([v \in {validate_path(ws, file_path)} |->
    IF v.exc # "" THEN [exc |-> v.exc, fs |-> f]
    ELSE IF ~path_exists(f, v.full_path) THEN [exc |-> "FileNotFoundError", fs |-> f]
    ELSE IF path_isdir(f, v.full_path) THEN [exc |-> "IsADirectoryError", fs |-> f]
    ELSE
    Let([swallowed \in {{"UnicodeDecodeError", "OSError", "FileNotFoundError"}} |->
    Let([old \in {read_text(f, v.full_path)} |->
    IF old.exc # "" /\ old.exc \notin swallowed THEN [exc |-> old.exc, fs |-> f] ELSE
    Let([s1 \in {IF old.exc # "" THEN [exc |-> "", fs |-> f]
         ELSE save_snapshot(f, ws, file_path, old.text, "delete", "deleted", t)} |->
    IF s1.exc \notin swallowed \cup {""} THEN s1
    ELSE remove_node(s1.fs, v.full_path)])])])])])

list_file_history(f, category, progress_id, file_path) ==
    list_versions(f, get_workspace_path(category, progress_id), file_path)

get_file_version(f, category, progress_id, file_path, version_id) ==
    get_version_content(f, get_workspace_path(category, progress_id), file_path, version_id)

rollback_file(f, category, progress_id, file_path, version_id, t) ==
    Let([old_content \in {get_file_version(f, category, progress_id, file_path, version_id)} |->
    IF old_content.exc # "" THEN [exc |-> old_content.exc, fs |-> f]
    ELSE write_file(f, category, progress_id, file_path, old_content.ret, t)])

\* a faulty edit_file: the snapshot is saved before the result is looked at
edit_file_snapshot_first(f, category, progress_id, file_path, old_string, new_string, expected_replacements, t) ==
    Let([ws \in {get_workspace_path(category, progress_id)} |->
    Let([v \in {validate_path(ws, file_path)} |->
    IF v.exc # "" THEN [exc |-> v.exc, fs |-> f]
    ELSE IF ~path_exists(f, v.full_path) THEN [exc |-> "FileNotFoundError", fs |-> f]
    ELSE
    Let([c \in {read_text(f, v.full_path)} |->
    IF c.exc # "" THEN [exc |-> c.exc, fs |-> f] ELSE
    Let([result \in {perform_replacement(c.text, old_string, new_string,
                                         expected_replacements)} |->
    Let([s1 \in {save_snapshot(f, ws, file_path, c.text, "edit", "edited", t)} |->
    IF s1.exc # "" THEN s1
    ELSE IF ~(result.success /\ result.content # None)
    THEN [exc |-> "", fs |-> s1.fs, ret |-> result]
    ELSE
    Let([w \in {write_atomically(s1.fs, v.full_path, result.content[1])} |->
    IF w.exc # "" THEN w
    ELSE [exc |-> "", fs |-> w.fs, ret |-> result]])])])])])])

\* edit_file, with t the clock its save_snapshot reads
edit_file(f, category, progress_id, file_path, old_string, new_string, expected_replacements, t) ==
    Let([ws \in {get_workspace_path(category, progress_id)} |->
    Let([v \in {validate_path(ws, file_path)} |->
    IF v.exc # "" THEN [exc |-> v.exc, fs |-> f]
    ELSE IF ~path_exists(f, v.full_path) THEN [exc |-> "FileNotFoundError", fs |-> f]
    ELSE
    Let([c \in {read_text(f, v.full_path)} |->
    IF c.exc # "" THEN [exc |-> c.exc, fs |-> f] ELSE
    Let([result \in {perform_replacement(c.text, old_string, new_string, expected_replacements)} |->
    IF ~(result.success /\ result.content # None)
    THEN [exc |-> "", fs |-> f, ret |-> result]
    ELSE
    Let([s1 \in {save_snapshot(f, ws, file_path, c.text, "edit", "edited", t)} |->
    IF s1.exc # "" THEN s1 ELSE
    Let([w \in {write_atomically(s1.fs, v.full_path, result.content[1])} |->
    IF w.exc # "" THEN w
    ELSE [exc |-> "", fs |-> w.fs, ret |-> result]])])])])])])

RECURSIVE readlines(_)
\* f.readlines() of text: the lines, each with its "\n"
readlines(s) ==
    IF s = <<>> THEN <<>>
    ELSE IF \A i \in 1..Len(s) : s[i] # "\n" THEN <<s>>
    ELSE LET i == CHOOSE k \in 1..Len(s) :
                      s[k] = "\n" /\ \A j \in 1..(k - 1) : s[j] # "\n"
         IN  <<SubSeq(s, 1, i)>> \o readlines(SubSeq(s, i + 1, Len(s)))

RECURSIVE rstrip_newline(_)
\* line.rstrip("\n")
rstrip_newline(s) ==
    IF s # <<>> /\ s[Len(s)] = "\n" THEN rstrip_newline(SubSeq(s, 1, Len(s) - 1)) ELSE s

\* os.stat(p).st_size of a file
st_size(f, p) ==
    Let([n \in {f[kwalk(f, p)[1]]} |-> IF n.t = "txt" THEN utf8_len(n.c) ELSE 0])

\* read_file; start_line and end_line are None or Some(number)
read_file(f, category, progress_id, file_path, start_line, end_line) ==
    Let([ws \in {get_workspace_path(category, progress_id)} |->
    Let([v \in {validate_path(ws, file_path)} |->
    IF v.exc # "" THEN [exc |-> v.exc]
    ELSE IF ~path_exists(f, v.full_path) THEN [exc |-> "FileNotFoundError"]
    ELSE IF ~path_isdir(f, v.full_path) /\ st_size(f, v.full_path) > MaxFileSize
    THEN [exc |-> "TooLarge"]
    ELSE
    Let([c \in {read_text(f, v.full_path)} |->
    IF c.exc # "" THEN [exc |-> c.exc] ELSE
    Let([all_lines \in {readlines(c.text)} |->
    Let([first \in {IF start_line = None THEN 1 ELSE start_line[1]} |->
    Let([final \in {IF end_line = None THEN Len(all_lines) ELSE end_line[1]} |->
    Let([actual_start \in {Max(1, first) - 1} |->
    Let([actual_end \in {Min(Len(all_lines), final)} |->
    Let([truncated \in {actual_end - actual_start > MaxReadLines} |->
    Let([stop \in {IF truncated THEN actual_start + MaxReadLines ELSE actual_end} |->
    [exc |-> "",
     ret |-> [lines |-> [i \in 1..Max(0, stop - actual_start) |->
                            <<actual_start + i,
                              rstrip_newline(all_lines[actual_start + i])>>],
              truncated |-> truncated]]])])])])])])])])])])

\* ------------------------------------------------------------ actions

\* the record of a call: what was asked, the exception raised ("" for none) and
\* what was returned; seq alternates between 0 and 1 from one call to the next
Call(op, progress_id, file_path, args, r) ==
    [op |-> op, progress_id |-> progress_id, file_path |-> file_path, args |-> args,
     exc |-> r.exc,
     ret |-> IF r.exc = "" /\ "ret" \in DOMAIN r THEN Some(r.ret) ELSE None,
     seq |-> 1 - last.seq]

NoCall == [op |-> "", progress_id |-> <<>>, file_path |-> <<>>, args |-> <<>>,
           exc |-> "", ret |-> None, seq |-> 0]

CATEGORY == <<"c">>

WriteFile(progress_id, file_path, content) ==
    \E r \in {write_file(fs, CATEGORY, progress_id, file_path, content, now)} :
    /\ fs' = r.fs
    /\ last' = Call("write_file", progress_id, file_path, <<content>>, r)
    /\ UNCHANGED now

EditFile(progress_id, file_path, old_string, new_string, expected_replacements) ==
    \E r \in {edit_file(fs, CATEGORY, progress_id, file_path, old_string, new_string,
                       expected_replacements, now)} :
    /\ fs' = r.fs
    /\ last' = Call("edit_file", progress_id, file_path,
                    <<old_string, new_string, expected_replacements>>, r)
    /\ UNCHANGED now

DeleteFile(progress_id, file_path) ==
    \E r \in {delete_file(fs, CATEGORY, progress_id, file_path, now)} :
    /\ fs' = r.fs
    /\ last' = Call("delete_file", progress_id, file_path, <<>>, r)
    /\ UNCHANGED now

RollbackFile(progress_id, file_path, version_id) ==
    \E r \in {rollback_file(fs, CATEGORY, progress_id, file_path, version_id, now)} :
    /\ fs' = r.fs
    /\ last' = Call("rollback_file", progress_id, file_path, <<version_id>>, r)
    /\ UNCHANGED now

ListFileHistory(progress_id, file_path) ==
    \E r \in {list_file_history(fs, CATEGORY, progress_id, file_path)} :
    /\ last' = Call("list_file_history", progress_id, file_path, <<>>, r)
    /\ UNCHANGED <<fs, now>>

GetFileVersion(progress_id, file_path, version_id) ==
    \E r \in {get_file_version(fs, CATEGORY, progress_id, file_path, version_id)} :
    /\ last' = Call("get_file_version", progress_id, file_path, <<version_id>>, r)
    /\ UNCHANGED <<fs, now>>

ReadFile(progress_id, file_path, start_line, end_line) ==
    \E r \in {read_file(fs, CATEGORY, progress_id, file_path, start_line, end_line)} :
    /\ last' = Call("read_file", progress_id, file_path, <<start_line, end_line>>, r)
    /\ UNCHANGED <<fs, now>>

\* a millisecond passes
Tick ==
    /\ now < MaxTime
    /\ now' = now + 1
    /\ UNCHANGED <<fs, last>>

\* ------------------------------------- Spec: one file of one workspace

PID == <<"1", ".", "1">>
NOTE_MD == <<"n", "o", "t", "e", ".", "m", "d">>

TEXT_A == <<"a">>
TEXT_CRLF == <<"a", "\r", "\n">>
TEXT_BIG == <<"a", "a", "a", "a">>

Contents == {TEXT_A, TEXT_CRLF, TEXT_BIG}

\* the edits asked for: old_string, new_string, expected_replacements
Edits == {<<<<"a">>, <<"b">>, 1>>}

VersionIds == {int_str(t) : t \in 1..MaxTime}

Init ==
    /\ fs = EmptyFS
    /\ now = 1
    /\ last = NoCall
    /\ trail = <<>>

\* the operations that change the file or its history, and the clock; what the
\* claims read of a state they read with list_file_history, get_file_version
\* and read_file, which change nothing
WriteNote == \E c \in Contents : WriteFile(PID, NOTE_MD, c) /\ UNCHANGED trail

EditNote == \E e \in Edits : EditFile(PID, NOTE_MD, e[1], e[2], e[3]) /\ UNCHANGED trail

DeleteNote == DeleteFile(PID, NOTE_MD) /\ UNCHANGED trail

RollbackNote == \E v \in VersionIds : RollbackFile(PID, NOTE_MD, v) /\ UNCHANGED trail

ClockTick == Tick /\ UNCHANGED trail

Next == WriteNote \/ EditNote \/ DeleteNote \/ RollbackNote \/ ClockTick

Spec == Init /\ [][Next]_vars

\* ------------------------------------------- what Spec's claims observe

WS == get_workspace_path(CATEGORY, PID)
NOTE_PATH == joinpath(WS, NOTE_MD)

\* the file is there, as a text file
IsText(f) == NOTE_PATH \in DOMAIN f /\ f[NOTE_PATH].t = "txt"

\* the characters the file holds on disk
FileText(f) == f[NOTE_PATH].c

\* what list_file_history returns for the file: its ledger, newest first
Listed(f) == list_file_history(f, CATEGORY, PID, NOTE_MD).ret

ListedIds(f) == {Listed(f)[i].version_id : i \in 1..Len(Listed(f))}

\* get_file_version can read the version
Readable(f, v) == get_file_version(f, CATEGORY, PID, NOTE_MD, v).exc = ""

\* what get_file_version returns for the version
VersionText(f, v) == get_file_version(f, CATEGORY, PID, NOTE_MD, v).ret

BlobPath(v) == snap_file(WS, NOTE_MD, v)

\* the characters the snapshot blob of the version holds on disk
BlobText(f, v) == f[BlobPath(v)].c

\* the ledger after one more entry: e in front, cut at the cap
Pushed(e, old) == SubSeq(<<e>> \o old, 1, Min(Len(old) + 1, MaxVersions))

\* the entries of old the cap drops when one more entry is saved
Dropped(old) == {old[i] : i \in MaxVersions..Len(old)}

\* the step is a call of the operation, and the call raised nothing
Called(op) == last'.seq # last.seq /\ last'.op = op
Succeeded == last'.exc = ""

\* the steps that save a snapshot: the successful writes, rollbacks and deletions
\* and the edits whose replacement succeeded
SavingStep ==
    /\ Succeeded
    /\ \/ Called("write_file")
       \/ Called("rollback_file")
       \/ Called("delete_file")
       \/ Called("edit_file") /\ last'.ret[1].success

\* ------------------------------------------------------------ claims

\* C3: whatever operation saves a snapshot, the ledger of the file holds at most
\* max_versions entries afterwards: it is the new entry followed by the entries
\* it held, cut at the cap, so the entries removed are the oldest ones, and no
\* blob of a removed entry is left on disk.  No other step changes the ledger.
C3_LedgerCap ==
    [][/\ Len(Listed(fs')) <= MaxVersions
       /\ SavingStep =>
              /\ Listed(fs') # <<>>
              /\ Listed(fs') = Pushed(Listed(fs')[1], Listed(fs))
              /\ \A d \in Dropped(Listed(fs)) :
                     ~path_exists(fs', BlobPath(d.version_id))
       /\ ~SavingStep => Listed(fs') = Listed(fs)]_vars

\* a saved snapshot has pushed the oldest entry out of a full ledger: the oldest
\* entry left is not the creation of the file
C3_Pruned ==
    /\ last.op \in {"write_file", "edit_file", "delete_file", "rollback_file"}
    /\ last.exc = ""
    /\ Len(Listed(fs)) = MaxVersions
    /\ Listed(fs)[MaxVersions].operation # "create"

\* C7: when the replacement fails, edit_file raises nothing, returns the failing
\* ReplaceResult of perform_replacement on the file's text, and leaves the file,
\* its ledger and its snapshots (the whole file system) as they were.
C7_FailedEditChangesNothing ==
    [][(/\ Called("edit_file")
        /\ IsText(fs)
        /\ ~perform_replacement(read_text(fs, NOTE_PATH).text, last'.args[1],
                                last'.args[2], last'.args[3]).success)
       => /\ last'.exc = ""
          /\ last'.ret = Some(perform_replacement(read_text(fs, NOTE_PATH).text,
                                                  last'.args[1], last'.args[2],
                                                  last'.args[3]))
          /\ fs' = fs]_vars

\* an edit_file has returned a failing result
C7_EditFailed ==
    /\ last.op = "edit_file"
    /\ last.exc = ""
    /\ last.ret # None
    /\ ~last.ret[1].success

\* the step has saved exactly one entry, the newest of the ledger, of the given
\* operation, and the blob of its version holds the given text
NewestHolds(operation, text) ==
    /\ Listed(fs') # <<>>
    /\ Listed(fs') = Pushed(Listed(fs')[1], Listed(fs))
    /\ Listed(fs')[1].operation = operation
    /\ BlobPath(Listed(fs')[1].version_id) \in DOMAIN fs'
    /\ BlobText(fs', Listed(fs')[1].version_id) = text

\* C2: a successful rollback_file destroys no history: every version that was
\* listed and readable before it (the oldest one, which the cap drops from a full
\* ledger, set aside) is listed and readable after it, and a new newest version
\* holds the content the file had before the rollback.
C2_RollbackKeepsHistory ==
    [][(Called("rollback_file") /\ Succeeded) =>
           /\ \A i \in 1..Len(Listed(fs)) :
                  (i < MaxVersions /\ Readable(fs, Listed(fs)[i].version_id))
                  => /\ Listed(fs)[i].version_id \in ListedIds(fs')
                     /\ Readable(fs', Listed(fs)[i].version_id)
           /\ IsText(fs) =>
                  /\ Listed(fs') # <<>>
                  /\ Listed(fs') = Pushed(Listed(fs')[1], Listed(fs))
                  /\ Readable(fs', Listed(fs')[1].version_id)
                  /\ VersionText(fs', Listed(fs')[1].version_id) = FileText(fs)]_vars

\* C6: each successful mutation saves exactly one new newest entry, and its
\* snapshot holds the old content (operation write) when write_file overwrites,
\* the new content (operation create) when write_file creates, the content before
\* the edit (operation edit) when edit_file succeeds, and the content before the
\* deletion (operation delete) when delete_file removes a text file.
C6_MutationSnapshots ==
    [][Succeeded =>
           /\ (Called("write_file") /\ IsText(fs)) => NewestHolds("write", FileText(fs))
           /\ (Called("write_file") /\ NOTE_PATH \notin DOMAIN fs)
                  => NewestHolds("create", last'.args[1])
           /\ (Called("edit_file") /\ last'.ret[1].success)
                  => NewestHolds("edit", FileText(fs))
           /\ (Called("delete_file") /\ IsText(fs))
                  => NewestHolds("delete", FileText(fs))]_vars

\* C8: after delete_file has removed a text file that has a history,
\* list_file_history lists every version it listed before (the oldest one, which
\* the cap drops from a full ledger, set aside) after a newest entry of operation
\* delete that holds the last content of the file, and get_file_version returns
\* the content of every version listed.
C8_HistorySurvivesDeletion ==
    [][(Called("delete_file") /\ Succeeded /\ IsText(fs) /\ Listed(fs) # <<>>) =>
           /\ Listed(fs') # <<>>
           /\ Listed(fs') = Pushed(Listed(fs')[1], Listed(fs))
           /\ Listed(fs')[1].operation = "delete"
           /\ \A j \in 1..Len(Listed(fs')) : Readable(fs', Listed(fs')[j].version_id)
           /\ VersionText(fs', Listed(fs')[1].version_id) = FileText(fs)]_vars

\* C10: a snapshot blob, once stored, is what get_version_content reads for as
\* long as its version is listed: no step changes or removes the blob of a
\* version that is listed before and after the step.
C10_SnapshotsImmutable ==
    [][\A v \in VersionIds :
           (v \in ListedIds(fs) /\ BlobPath(v) \in DOMAIN fs /\ v \in ListedIds(fs'))
           => /\ BlobPath(v) \in DOMAIN fs'
              /\ fs'[BlobPath(v)] = fs[BlobPath(v)]]_vars

\* ------------------- SpecRoundTrip: two writes and a rollback, in order

TEXT_B == <<"b">>

RoundTripContents == {TEXT_A, TEXT_B, TEXT_CRLF}

RoundTripWrite ==
    /\ Len(trail) < 2
    /\ \E c \in RoundTripContents : WriteFile(PID, NOTE_MD, c)
    /\ trail' = Append(trail, last')

RoundTripRollback ==
    /\ Len(trail) = 2
    /\ \E v \in VersionIds : RollbackFile(PID, NOTE_MD, v)
    /\ trail' = Append(trail, last')

RoundTripTick == Len(trail) < 3 /\ Tick /\ UNCHANGED trail

RoundTripNext == RoundTripWrite \/ RoundTripRollback \/ RoundTripTick

SpecRoundTrip == Init /\ [][RoundTripNext]_vars

\* C1: after write_file(C1), write_file(C2) and a rollback_file to a version
\* whose snapshot holds C1, the file holds C1 and the ledger lists a version
\* whose snapshot holds C2.
C1_RollbackRoundTrip ==
    [][(/\ Len(trail) = 2 /\ Len(trail') = 3
        /\ \A i \in 1..3 : trail'[i].exc = ""
        /\ BlobPath(trail'[3].args[1]) \in DOMAIN fs
        /\ BlobText(fs, trail'[3].args[1]) = trail[1].args[1])
       => /\ IsText(fs')
          /\ FileText(fs') = trail[1].args[1]
          /\ \E i \in 1..Len(Listed(fs')) :
                 /\ BlobPath(Listed(fs')[i].version_id) \in DOMAIN fs'
                 /\ BlobText(fs', Listed(fs')[i].version_id) = trail[2].args[1]]_vars

\* --------------- SpecRetention: max_versions + 5 writes of the one file

RetentionWrites == MaxVersions + 5

RetentionWrite ==
    /\ Len(trail) < RetentionWrites
    /\ WriteFile(PID, NOTE_MD, TEXT_A)
    /\ trail' = Append(trail, last')

\* a millisecond passes: the clock has room for every write to read its own time
RetentionTick ==
    /\ now < RetentionWrites
    /\ now' = now + 1
    /\ UNCHANGED <<fs, last, trail>>

RetentionNext == RetentionWrite \/ RetentionTick

SpecRetention == Init /\ [][RetentionNext]_vars

\* the snapshot blobs of the file that are on disk
BlobsOnDisk(f) == {p \in DOMAIN f : Len(p) > 0 /\ parent(p) = snapshot_dir(WS, NOTE_MD)}

\* C4: after max_versions + 5 successive writes of the file, the ledger lists
\* exactly max_versions versions, exactly max_versions blobs are on disk, and
\* each listed version has a blob of its own (so the older versions are neither
\* listed nor on disk).
C4_Retention ==
    (Len(trail) = RetentionWrites /\ \A i \in 1..Len(trail) : trail[i].exc = "")
    => /\ Len(Listed(fs)) = MaxVersions
       /\ Cardinality(BlobsOnDisk(fs)) = MaxVersions
       /\ Cardinality(ListedIds(fs)) = MaxVersions
       /\ BlobsOnDisk(fs) = {BlobPath(v) : v \in ListedIds(fs)}

\* ---------- SpecSandbox: the seven operations on paths that leave the workspace

SIBLING_PID == <<"1", ".", "1", "0">>
ETC == <<<<"e", "t", "c">>>>
PASSWD == Append(ETC, <<"p", "a", "s", "s", "w", "d">>)

\* ../../../etc/passwd
ESC_PASSWD == <<".", ".", "/", ".", ".", "/", ".", ".", "/", "e", "t", "c", "/", "p", "a", "s", "s", "w", "d">>
\* /etc/passwd
ABS_PASSWD == <<"/", "e", "t", "c", "/", "p", "a", "s", "s", "w", "d">>
\* ../1_10/note.md: the file of the workspace whose name begins with this one's
ESC_SIBLING == <<".", ".", "/", "1", "_", "1", "0", "/", "n", "o", "t", "e", ".", "m", "d">>
\* ../../1_10/.history/note.md: from the history root, the history of that workspace
ESC_LEDGER == <<".", ".", "/", ".", ".", "/", "1", "_", "1", "0", "/", ".", "h", "i", "s", "t", "o", "r", "y", "/", "n", "o", "t", "e", ".", "m", "d">>

SandboxPaths == {NOTE_MD, ESC_PASSWD, ABS_PASSWD, ESC_SIBLING, ESC_LEDGER}

SandboxContents == {TEXT_A, TEXT_B}

\* the workspace 1.10 holds a note written through the service, and the machine
\* has its /etc/passwd
InitSandbox ==
    /\ fs = write_node(makedirs(write_file(EmptyFS, CATEGORY, SIBLING_PID, NOTE_MD,
                                           TEXT_A, 1).fs, ETC).fs,
                       PASSWD, Txt(TEXT_B)).fs
    /\ now = 1
    /\ last = NoCall
    /\ trail = <<>>

\* the calls of a run
MaxCalls == 2

SandboxWrite ==
    /\ Len(trail) < MaxCalls
    /\ \E p \in SandboxPaths, c \in SandboxContents : WriteFile(PID, p, c)
    /\ trail' = Append(trail, last')

SandboxEdit ==
    /\ Len(trail) < MaxCalls
    /\ \E p \in SandboxPaths, e \in Edits : EditFile(PID, p, e[1], e[2], e[3])
    /\ trail' = Append(trail, last')

SandboxDelete ==
    /\ Len(trail) < MaxCalls
    /\ \E p \in SandboxPaths : DeleteFile(PID, p)
    /\ trail' = Append(trail, last')

SandboxRollback ==
    /\ Len(trail) < MaxCalls
    /\ \E p \in SandboxPaths, v \in VersionIds : RollbackFile(PID, p, v)
    /\ trail' = Append(trail, last')

SandboxRead ==
    /\ Len(trail) < MaxCalls
    /\ \E p \in SandboxPaths : ReadFile(PID, p, None, None)
    /\ trail' = Append(trail, last')

SandboxListHistory ==
    /\ Len(trail) < MaxCalls
    /\ \E p \in SandboxPaths : ListFileHistory(PID, p)
    /\ trail' = Append(trail, last')

SandboxGetVersion ==
    /\ Len(trail) < MaxCalls
    /\ \E p \in SandboxPaths, v \in VersionIds : GetFileVersion(PID, p, v)
    /\ trail' = Append(trail, last')

SandboxTick == Len(trail) < MaxCalls /\ Tick /\ UNCHANGED trail

SandboxNext ==
    \/ SandboxWrite \/ SandboxEdit \/ SandboxDelete \/ SandboxRollback
    \/ SandboxRead \/ SandboxListHistory \/ SandboxGetVersion \/ SandboxTick

SpecSandbox == InitSandbox /\ [][SandboxNext]_vars

\* p is the directory d or lies below it
IsUnder(p, d) == Len(p) >= Len(d) /\ SubSeq(p, 1, Len(d)) = d

\* the canonical form of file_path is not a descendant of the workspace
Escapes(file_path) == ~IsUnder(resolve(joinpath(WS, file_path)), resolve(WS))

\* no path outside the workspace is created, removed or rewritten by the step
OutsideUntouched ==
    \A p \in DOMAIN fs \cup DOMAIN fs' :
        ~IsUnder(p, WS) => p \in DOMAIN fs /\ p \in DOMAIN fs' /\ fs'[p] = fs[p]

\* C5: each of the seven operations fails with a path-escape error for every
\* file_path whose canonical form is not a descendant of the workspace, and
\* writes no path outside the workspace.
C5_EscapeRefused ==
    [][(last'.seq # last.seq /\ Escapes(last'.file_path))
       => last'.exc = "PathEscape" /\ OutsideUntouched]_vars

\* ------- SpecCrash: write_file and edit_file step by step, with crashes

\* the frame of a call in flight: its arguments, its locals, where it stands (pc)
\* and the file system it started from
Frame(op, progress_id, file_path, args, full_path, file_exists, content, snap_text, snap_op, pc, before) ==
    [op |-> op, progress_id |-> progress_id, file_path |-> file_path, args |-> args,
     full_path |-> full_path, file_exists |-> file_exists, content |-> content,
     snap_text |-> snap_text, snap_op |-> snap_op, version_id |-> <<>>,
     meta |-> [file_path |-> file_path, versions |-> <<>>],
     pc |-> pc, before |-> before]

\* write_file up to its first write: the checks, the directories, the old content
write_file_begin(f, category, progress_id, file_path, content) ==
    IF utf8_len(content) > MaxFileSize THEN [exc |-> "TooLarge", fs |-> f] ELSE
    Let([e \in {ensure_workspace(f, category, progress_id)} |->
    IF e.exc # "" THEN e ELSE
    Let([v \in {validate_path(get_workspace_path(category, progress_id), file_path)} |->
    IF v.exc # "" THEN [exc |-> v.exc, fs |-> e.fs] ELSE
    Let([d \in {makedirs(e.fs, parent(v.full_path))} |->
    IF d.exc # "" THEN d ELSE
    Let([file_exists \in {path_exists(d.fs, v.full_path)} |->
    Let([old \in {IF file_exists THEN read_text(d.fs, v.full_path)
         ELSE [exc |-> "", text |-> <<>>]} |->
    IF old.exc # "" THEN [exc |-> old.exc, fs |-> d.fs] ELSE
    [exc |-> "", fs |-> d.fs,
     frame |-> Frame("write_file", progress_id, file_path, <<content>>, v.full_path,
                     file_exists, content, old.text, "write",
                     IF file_exists THEN "snap_blob" ELSE "file_open", f)]])])])])])

\* edit_file up to its first write: the checks, the old content, the replacement
edit_file_begin(f, category, progress_id, file_path, old_string, new_string, expected_replacements) ==
    Let([v \in {validate_path(get_workspace_path(category, progress_id), file_path)} |->
    IF v.exc # "" THEN [exc |-> v.exc, fs |-> f]
    ELSE IF ~path_exists(f, v.full_path) THEN [exc |-> "FileNotFoundError", fs |-> f]
    ELSE
    Let([c \in {read_text(f, v.full_path)} |->
    IF c.exc # "" THEN [exc |-> c.exc, fs |-> f] ELSE
    Let([result \in {perform_replacement(c.text, old_string, new_string,
                                         expected_replacements)} |->
    Let([args \in {<<old_string, new_string, expected_replacements>>} |->
    IF ~(result.success /\ result.content # None)
    THEN [exc |-> "", fs |-> f, ret |-> result,
          frame |-> Frame("edit_file", progress_id, file_path, args, v.full_path,
                          TRUE, c.text, c.text, "edit", "done", f)]
    ELSE [exc |-> "", fs |-> f, ret |-> result,
          frame |-> Frame("edit_file", progress_id, file_path, args, v.full_path,
                          TRUE, result.content[1], c.text, "edit", "snap_blob",
                          f)]])])])])

\* one step of save_snapshot: the blob is written under the id the clock gives,
\* then the ledger is read, the entry put first and the ledger pruned
save_snapshot_step(f, ws, w, t) ==
    IF w.pc = "snap_blob"
    THEN Let([version_id \in {int_str(t)} |->
         Let([d \in {makedirs(f, snapshot_dir(ws, w.file_path))} |->
         IF d.exc # "" THEN d ELSE
         Let([b \in {write_node(d.fs, snap_file(ws, w.file_path, version_id),
                                Txt(w.snap_text))} |->
         IF b.exc # "" THEN b ELSE
         [exc |-> "", fs |-> b.fs,
          frame |-> [w EXCEPT !.version_id = version_id, !.pc = "snap_prune"]]])])])
    ELSE Let([m \in {read_meta(f, ws, w.file_path)} |->
         IF m.exc # "" THEN [exc |-> m.exc, fs |-> f] ELSE
         Let([entry \in {version_entry(w.version_id, w.snap_text, w.snap_op,
                                       IF w.snap_op = "write" THEN "overwritten"
                                       ELSE IF w.snap_op = "create" THEN "created"
                                       ELSE "edited")} |->
         Let([p \in {prune_old_versions(f, ws, w.file_path,
                                        [m.meta EXCEPT !.versions = <<entry>> \o @])} |->
         [exc |-> "", fs |-> p.fs,
          frame |-> [w EXCEPT !.meta = p.meta, !.pc = "meta_open"]]])])])

\* one step of _write_meta: the temporary file is opened (it is there, empty),
\* the ledger is written into it, it is renamed onto the ledger
write_meta_step(f, ws, w) ==
    Let([mp \in {meta_path(ws, w.file_path)} |->
    Let([tmp \in {with_suffix(mp, TMP)} |->
    IF w.pc = "meta_open"
    THEN Let([d \in {makedirs(f, parent(mp))} |->
         IF d.exc # "" THEN d ELSE
         Let([o \in {write_node(d.fs, tmp, Txt(<<>>))} |->
         IF o.exc # "" THEN o ELSE
         [exc |-> "", fs |-> o.fs, frame |-> [w EXCEPT !.pc = "meta_write"]]])])
    ELSE IF w.pc = "meta_write"
    THEN Let([o \in {write_node(f, tmp, Json(w.meta))} |->
         IF o.exc # "" THEN o ELSE
         [exc |-> "", fs |-> o.fs, frame |-> [w EXCEPT !.pc = "meta_replace"]]])
    ELSE Let([r \in {replace_node(f, tmp, mp)} |->
         IF r.exc # "" THEN r ELSE
         [exc |-> "", fs |-> r.fs,
          frame |-> [w EXCEPT !.pc = IF w.snap_op = "create" THEN "done"
                                     ELSE "file_open"]]])])])

\* one step of the write of the user file: the temporary file is opened (it is
\* there, empty), the content is written into it, it is renamed onto the file;
\* a file that write_file created is then snapshotted
write_atomically_step(f, w) ==
    Let([temp_path \in {with_suffix(w.full_path, TMP)} |->
    IF w.pc = "file_open"
    THEN Let([o \in {write_node(f, temp_path, Txt(<<>>))} |->
         IF o.exc # "" THEN o ELSE
         [exc |-> "", fs |-> o.fs, frame |-> [w EXCEPT !.pc = "file_write"]]])
    ELSE IF w.pc = "file_write"
    THEN Let([o \in {write_node(f, temp_path, Txt(w.content))} |->
         IF o.exc # "" THEN o ELSE
         [exc |-> "", fs |-> o.fs, frame |-> [w EXCEPT !.pc = "file_replace"]]])
    ELSE Let([r \in {replace_node(f, temp_path, w.full_path)} |->
         IF r.exc # "" THEN r ELSE
         [exc |-> "", fs |-> r.fs,
          frame |-> IF w.op = "write_file" /\ ~w.file_exists
                    THEN [w EXCEPT !.snap_text = w.content, !.snap_op = "create",
                                   !.pc = "snap_blob"]
                    ELSE [w EXCEPT !.pc = "done"]]])])

\* the next step of the call in flight
step(f, category, w, t) ==
    IF w.pc \in {"snap_blob", "snap_prune"}
    THEN save_snapshot_step(f, get_workspace_path(category, w.progress_id), w, t)
    ELSE IF w.pc \in {"meta_open", "meta_write", "meta_replace"}
    THEN write_meta_step(f, get_workspace_path(category, w.progress_id), w)
    ELSE write_atomically_step(f, w)

\* the step r of a call: the call goes on with its new frame, or it ends (with
\* an exception, or done) and is the last call
Settle(op, progress_id, file_path, args, r) ==
    /\ fs' = r.fs
    /\ IF r.exc # "" \/ r.frame.pc = "done"
       THEN trail' = <<>> /\ last' = Call(op, progress_id, file_path, args, r)
       ELSE trail' = <<r.frame>> /\ UNCHANGED last
    /\ UNCHANGED now

A_TMP == <<"a", ".", "t", "m", "p">>

CrashPaths == {NOTE_MD, A_TMP}

CrashContents == {TEXT_A, TEXT_B}

\* the files a call may be about: a run keeps to the file of its first call
CrashFiles == IF last.op = "" THEN CrashPaths ELSE {last.file_path}

CrashBeginWrite ==
    /\ trail = <<>>
    /\ \E p \in CrashFiles, c \in CrashContents :
           \E r \in {write_file_begin(fs, CATEGORY, PID, p, c)} :
               Settle("write_file", PID, p, <<c>>, r)

CrashBeginEdit ==
    /\ trail = <<>>
    /\ \E p \in CrashFiles, e \in Edits :
           \E r \in {edit_file_begin(fs, CATEGORY, PID, p, e[1], e[2], e[3])} :
               Settle("edit_file", PID, p, e, r)

CrashStep ==
    /\ trail # <<>>
    /\ trail[1].pc # "crashed"
    /\ \E r \in {step(fs, CATEGORY, trail[1], now)} :
           Settle(trail[1].op, trail[1].progress_id, trail[1].file_path,
                  trail[1].args, r)

\* the process dies where it stands; the files stay as they are
Crash ==
    /\ trail # <<>>
    /\ trail[1].pc # "crashed"
    /\ trail' = <<[trail[1] EXCEPT !.pc = "crashed"]>>
    /\ UNCHANGED <<fs, now, last>>

CrashTick == Tick /\ UNCHANGED trail

CrashNext == CrashBeginWrite \/ CrashBeginEdit \/ CrashStep \/ Crash \/ CrashTick

SpecCrash == Init /\ [][CrashNext]_vars

\* under its real name the user file of the call in flight is as it was when
\* the call began (there with that content, or not there) or holds all of the
\* new content
UserFileWhole(w) ==
    IF w.full_path \in DOMAIN fs
    THEN \/ fs[w.full_path] = Txt(w.content)
         \/ w.full_path \in DOMAIN w.before /\ fs[w.full_path] = w.before[w.full_path]
    ELSE w.full_path \notin DOMAIN w.before

\* under its real name the ledger of the call in flight is as it was when the
\* call began or is a complete ledger
LedgerWhole(w) ==
    Let([mp \in {meta_path(get_workspace_path(CATEGORY, w.progress_id), w.file_path)} |->
    IF mp \in DOMAIN fs
    THEN \/ fs[mp].t = "json"
         \/ mp \in DOMAIN w.before /\ fs[mp] = w.before[mp]
    ELSE mp \notin DOMAIN w.before])

\* C9: at whatever step of write_file, edit_file or save_snapshot the process
\* crashes, the user file and the ledger under their real names each hold all of
\* their previous content or all of their new content, never a part of it.
C9_CrashAtomic ==
    \A i \in 1..Len(trail) : UserFileWhole(trail[i]) /\ LedgerWhole(trail[i])

\* ----------------------------------------- claims on the ledger's entries

\* C11: however closely the snapshots of a file follow one another, no two
\* entries of its ledger have the same version_id.
C11_UniqueVersionIds == Cardinality(ListedIds(fs)) = Len(Listed(fs))

\* C12: when a snapshot of the file is saved, list_versions returns the version
\* saved (its id is the clock's millisecond) as its first entry, followed by the
\* entries it listed before, in the order they had, less those cut from the
\* tail; the entries are never sorted again.
C12_NewestFirst ==
    [][SavingStep =>
           /\ Listed(fs') # <<>>
           /\ Listed(fs')[1].version_id = int_str(now)
           /\ Tail(Listed(fs')) = SubSeq(Listed(fs), 1, Len(Listed(fs')) - 1)]_vars

\* a later snapshot is listed in front of an earlier one
C12_NewerInFront ==
    /\ Len(Listed(fs)) >= 2
    /\ Listed(fs)[1].version_id = int_str(2)
    /\ Listed(fs)[2].version_id = int_str(1)

\* ------------- SpecWorkspaces: the same file name under several progress ids

PID_UNDERSCORE == <<"1", "_", "1">>
PID_OTHER == <<"1", ".", "2">>

WorkspaceIds == {PID, PID_UNDERSCORE, PID_OTHER}

WorkspacesWrite ==
    /\ Len(trail) < MaxCalls
    /\ \E p \in WorkspaceIds, c \in SandboxContents : WriteFile(p, NOTE_MD, c)
    /\ trail' = Append(trail, last')

WorkspacesDelete ==
    /\ Len(trail) < MaxCalls
    /\ \E p \in WorkspaceIds : DeleteFile(p, NOTE_MD)
    /\ trail' = Append(trail, last')

WorkspacesTick == Len(trail) < MaxCalls /\ Tick /\ UNCHANGED trail

WorkspacesNext == WorkspacesWrite \/ WorkspacesDelete \/ WorkspacesTick

SpecWorkspaces == Init /\ [][WorkspacesNext]_vars

\* C13: different (category, progress_id) pairs never name the same workspace
\* directory: a call made under one progress id changes neither the file nor
\* the history that another progress id reads.
C13_WorkspacesApart ==
    [][\A q \in WorkspaceIds :
           (last'.seq # last.seq /\ q # last'.progress_id)
           => /\ get_workspace_path(CATEGORY, q)
                     # get_workspace_path(CATEGORY, last'.progress_id)
              /\ read_file(fs', CATEGORY, q, NOTE_MD, None, None)
                     = read_file(fs, CATEGORY, q, NOTE_MD, None, None)
              /\ list_file_history(fs', CATEGORY, q, NOTE_MD)
                     = list_file_history(fs, CATEGORY, q, NOTE_MD)]_vars

\* ------ SpecReplace: perform_replacement on documents of letters, spaces and +

\* the longest document and the longest old_str tried
MaxDocLen == 4
MaxOldLen == 3

\* the strings over the alphabet, from lo to hi characters long
Strings(alphabet, lo, hi) == UNION {[1..k -> alphabet] : k \in lo..hi}

\* the arguments of a perform_replacement
Inputs(contents, old_strs, new_strs, counts) ==
    {[content |-> c, old_str |-> o, new_str |-> n, expected_count |-> e] :
         c \in contents, o \in old_strs, n \in new_strs, e \in counts}

PerformReplacement ==
    /\ last.op = ""
    /\ Len(trail) = 1
    /\ \E r \in {perform_replacement(trail[1].content, trail[1].old_str,
                                     trail[1].new_str, trail[1].expected_count)} :
           last' = Call("perform_replacement", <<>>, <<>>, trail,
                        [exc |-> "", ret |-> r])
    /\ UNCHANGED <<fs, now, trail>>

ReplaceAlphabet == {"a", " ", "+"}

InitReplace ==
    /\ fs = EmptyFS
    /\ now = 1
    /\ last = NoCall
    /\ \E i \in Inputs(Strings(ReplaceAlphabet, 0, MaxDocLen),
                       Strings(ReplaceAlphabet, 1, MaxOldLen),
                       {<<>>, <<"b">>}, {1, 2}) : trail = <<i>>

SpecReplace == InitReplace /\ [][PerformReplacement]_vars

\* the call made, its arguments and its result
Replaced == last.op = "perform_replacement"
Arg == last.args[1]
Result == last.ret[1]

\* the positions of the document where s stands
Occurrences(d, s) == {i \in 1..(Len(d) - Len(s) + 1) : SubSeq(d, i, i + Len(s) - 1) = s}

\* the document holds s exactly n times, no two of them overlapping
HoldsApart(d, s, n) ==
    /\ Cardinality(Occurrences(d, s)) = n
    /\ \A i, j \in Occurrences(d, s) : i < j => i + Len(s) <= j

\* C14: for a document that contains the search string exactly twice,
\* perform_replacement with expected_count = 1 returns a failure with no
\* content, and its error reports an exact-match count of 2.
C14_AmbiguityRejected ==
    (Replaced /\ Arg.expected_count = 1 /\ HoldsApart(Arg.content, Arg.old_str, 2))
    => /\ ~Result.success
       /\ Result.content = None
       /\ Result.error # None
       /\ Result.error[1].exact = 2

\* ---- SpecReplaceEscapes: documents and search strings that hold backslashes

EscapesAlphabet == {"\\", "t", "s", " "}

InitReplaceEscapes ==
    /\ fs = EmptyFS
    /\ now = 1
    /\ last = NoCall
    /\ \E i \in Inputs(Strings(EscapesAlphabet, 0, MaxDocLen),
                       Strings(EscapesAlphabet, 1, MaxOldLen),
                       {<<"b">>}, {1}) : trail = <<i>>

SpecReplaceEscapes == InitReplaceEscapes /\ [][PerformReplacement]_vars

\* the characters of s that are not whitespace, in their order
NonWhitespace(s) == SelectSeq(s, LAMBDA c : c \notin WHITESPACE)

\* the spans of the document that the tier of the given name replaces, as the
\* half-open spans of positions of the document without its carriage returns
TierSpans(content, old_str, match_type) ==
    Let([d \in {str_replace(content, CRLF, LF)} |->
    Let([o \in {str_replace(old_str, CRLF, LF)} |->
    IF match_type = "exact"
    THEN {[start |-> i, end |-> i + Len(o)] : i \in Occurrences(d, o)}
    ELSE Let([m \in {finditer(IF match_type = "whitespace_flexible"
                              THEN create_whitespace_flexible_regex(o)
                              ELSE create_token_regex(o), d)} |->
         {m[i] : i \in 1..Len(m)}])])])

\* the text of a span
SpanText(content, span) ==
    SubSeq(str_replace(content, CRLF, LF), span.start, span.end - 1)

\* C15: in every successful perform_replacement, at whatever tier, each span
\* replaced differs from old_str in whitespace only: its characters that are not
\* whitespace are those of old_str, in order, so that every regex metacharacter
\* of old_str, a backslash before a letter too, has matched itself.
C15_NoSemanticDrift ==
    (Replaced /\ Result.success)
    => \A span \in TierSpans(Arg.content, Arg.old_str, Result.match_type[1]) :
           NonWhitespace(SpanText(Arg.content, span)) = NonWhitespace(Arg.old_str)

\* ------- SpecReplaceLines: documents, search strings and replacements that
\* hold line endings of both kinds

LinesAlphabet == {"a", "\r", "\n"}

InitReplaceLines ==
    /\ fs = EmptyFS
    /\ now = 1
    /\ last = NoCall
    /\ \E i \in Inputs(Strings(LinesAlphabet, 0, MaxDocLen),
                       Strings(LinesAlphabet, 1, MaxOldLen),
                       {<<"b">>, CRLF, LF}, {1, 2}) : trail = <<i>>

SpecReplaceLines == InitReplaceLines /\ [][PerformReplacement]_vars

\* the document with what stands at position i, as long as s, replaced by r
ReplacedAt(d, i, s, r) == SubSeq(d, 1, i - 1) \o r \o SubSeq(d, i + Len(s), Len(d))

\* C16: for a document that contains the substring exactly once and any
\* replacement, perform_replacement with expected_count = 1 succeeds with
\* match_type exact and returns the document with that one occurrence replaced
\* and everything else as it was.
C16_ExactRoundTrip ==
    (Replaced /\ Arg.expected_count = 1
        /\ Cardinality(Occurrences(Arg.content, Arg.old_str)) = 1)
    => /\ Result.success
       /\ Result.match_type = Some("exact")
       /\ \A i \in Occurrences(Arg.content, Arg.old_str) :
              Result.content = Some(ReplacedAt(Arg.content, i, Arg.old_str, Arg.new_str))

\* ---------- SpecReplaceTabs: documents and search strings with spaces and tabs

TabsAlphabet == {"a", " ", "\t"}

InitReplaceTabs ==
    /\ fs = EmptyFS
    /\ now = 1
    /\ last = NoCall
    /\ \E i \in Inputs(Strings(TabsAlphabet, 0, MaxDocLen),
                       Strings(TabsAlphabet, 1, MaxOldLen),
                       {<<"b">>}, {1, 2}) : trail = <<i>>

SpecReplaceTabs == InitReplaceTabs /\ [][PerformReplacement]_vars

\* the characters whose runs in old_str the whitespace-flexible tier lets vary
BLANKS == {" ", "\t", "\n"}

\* how many characters at the head of s are in the set
RunLength(s, set) ==
    CHOOSE n \in 0..Len(s) :
        (\A j \in 1..n : s[j] \in set) /\ (n = Len(s) \/ s[n + 1] \notin set)

RECURSIVE VariesInBlanks(_, _)
\* t is o but for its runs of blanks, each of which is some non-empty run of
\* whitespace in t
VariesInBlanks(t, o) ==
    IF o = <<>> THEN t = <<>>
    ELSE IF Head(o) \in BLANKS
    THEN \E k \in 1..Len(t) :
             /\ \A j \in 1..k : t[j] \in WHITESPACE
             /\ VariesInBlanks(SubSeq(t, k + 1, Len(t)),
                               SubSeq(o, RunLength(o, BLANKS) + 1, Len(o)))
    ELSE t # <<>> /\ Head(t) = Head(o) /\ VariesInBlanks(Tail(t), Tail(o))

\* the spans of the document that satisfy the test and lie in no longer such span
MaximalSpans(d, Test(_)) ==
    LET all == {sp \in [start : 1..(Len(d) + 1), end : 1..(Len(d) + 1)] :
                    sp.start < sp.end /\ Test(SubSeq(d, sp.start, sp.end - 1))}
    IN  {sp \in all : \A o \in all :
             (o.start <= sp.start /\ sp.end <= o.end) => o = sp}

\* no two of the spans overlap
Disjoint(spans) == \A x, y \in spans : x = y \/ x.end <= y.start \/ y.end <= x.start

RECURSIVE SpansReplaced(_, _, _)
\* the document with each of the spans replaced by r
SpansReplaced(d, spans, r) ==
    IF spans = {} THEN d
    ELSE LET sp == CHOOSE x \in spans : \A y \in spans : y.start <= x.start
         IN  SpansReplaced(SubSeq(d, 1, sp.start - 1) \o r \o SubSeq(d, sp.end, Len(d)),
                           spans \ {sp}, r)

\* the spans of document d that are old_str o but for its runs of blanks
BlankVariants(d, o) == MaximalSpans(d, LAMBDA t : VariesInBlanks(t, o))

\* C17: when the exact count is not expected_count and the document holds
\* exactly expected_count spans equal to old_str but for its runs of spaces,
\* tabs and newlines, each replaced by a non-empty run of whitespace,
\* perform_replacement succeeds with match_type whitespace_flexible and replaces
\* exactly those spans with new_str.
C17_WhitespaceTolerance ==
    (Replaced
        /\ str_count(Arg.content, Arg.old_str) # Arg.expected_count
        /\ Cardinality(BlankVariants(Arg.content, Arg.old_str)) = Arg.expected_count
        /\ Disjoint(BlankVariants(Arg.content, Arg.old_str)))
    => /\ Result.success
       /\ Result.match_type = Some("whitespace_flexible")
       /\ Result.content = Some(SpansReplaced(Arg.content,
                                    BlankVariants(Arg.content, Arg.old_str),
                                    Arg.new_str))

RECURSIVE Tokens(_)
\* the tokens of a string: its maximal runs of word characters, and each other
\* character that is not whitespace
Tokens(s) ==
    IF s = <<>> THEN <<>>
    ELSE IF Head(s) \in WHITESPACE THEN Tokens(Tail(s))
    ELSE IF Head(s) \in WORD_CHARS
    THEN <<SubSeq(s, 1, RunLength(s, WORD_CHARS))>>
         \o Tokens(SubSeq(s, RunLength(s, WORD_CHARS) + 1, Len(s)))
    ELSE <<<<Head(s)>>>> \o Tokens(Tail(s))

RECURSIVE MadeOfTokens(_, _)
\* t is the tokens, in order, with zero or more whitespace characters between
\* one and the next
MadeOfTokens(t, tokens) ==
    /\ tokens # <<>>
    /\ Len(t) >= Len(Head(tokens))
    /\ SubSeq(t, 1, Len(Head(tokens))) = Head(tokens)
    /\ IF Len(tokens) = 1 THEN Len(t) = Len(Head(tokens))
       ELSE MadeOfTokens(SubSeq(t, Len(Head(tokens)) + RunLength(SubSeq(t, Len(Head(tokens)) + 1, Len(t)), WHITESPACE) + 1, Len(t)),
                         Tail(tokens))

\* the spans of document d made of the tokens of old_str o
TokenSpans(d, o) == MaximalSpans(d, LAMBDA t : MadeOfTokens(t, Tokens(o)))

\* a string as the tiers read it, CRLF turned to LF
Normalized(s) == str_replace(s, CRLF, LF)

\* the exact tier's match count
ExactCount(d, o) == str_count(Normalized(d), Normalized(o))

\* the whitespace-flexible tier's match count
WhitespaceCount(d, o) ==
    Len(finditer(create_whitespace_flexible_regex(Normalized(o)), Normalized(d)))

\* C18: when neither the exact nor the whitespace-flexible count is
\* expected_count and the document holds exactly expected_count spans made of
\* old_str's tokens in order, separated by zero or more whitespace characters,
\* perform_replacement succeeds with match_type token; and it never succeeds with match_type token on a document that holds no such
\* span.
C18_TokenTolerance ==
    Replaced =>
        /\ (/\ ExactCount(Arg.content, Arg.old_str) # Arg.expected_count
            /\ WhitespaceCount(Arg.content, Arg.old_str) # Arg.expected_count
            /\ Cardinality(TokenSpans(Arg.content, Arg.old_str)) = Arg.expected_count
            /\ Disjoint(TokenSpans(Arg.content, Arg.old_str)))
           => /\ Result.success
              /\ Result.match_type = Some("token")
        /\ Result.match_type = Some("token")
               => TokenSpans(Arg.content, Arg.old_str) # {}

\* a token-tier success where whitespace stands between tokens that old_str
\* writes together
C18_TokensSpacedOut ==
    /\ Replaced
    /\ Result.match_type = Some("token")
    /\ Arg.old_str = <<"a", "+">>
    /\ Arg.content = <<"a", " ", "+">>
    /\ Result.content = Some(Arg.new_str)

\* the document has a CRLF line ending
UsesCRLF(d) == \E i \in 1..(Len(d) - 1) : d[i] = "\r" /\ d[i + 1] = "\n"

\* every line feed of the string is preceded by a carriage return
CRLFThroughout(s) == \A i \in 1..Len(s) : s[i] = "\n" => (i > 1 /\ s[i - 1] = "\r")

\* C19: for a document that uses CRLF line endings, every successful exact
\* replacement returns content in which every line feed is preceded by a
\* carriage return, whatever line endings old_str and new_str use.
C19_CRLFPreserved ==
    (Replaced /\ UsesCRLF(Arg.content) /\ Result.match_type = Some("exact"))
    => Result.success /\ CRLFThroughout(Result.content[1])

\* an exact replacement that writes a new_str with a bare line feed into a
\* CRLF document
C19_LFIntoCRLF ==
    /\ Replaced
    /\ UsesCRLF(Arg.content)
    /\ Arg.new_str = LF
    /\ Result.match_type = Some("exact")
    /\ str_count(Result.content[1], CRLF) >= 2

\* the token tier's match count
TokenCount(d, o) == Len(finditer(create_token_regex(Normalized(o)), Normalized(d)))

\* the match count of the tier a match_type names
TierCount(d, o, match_type) ==
    IF match_type = "exact" THEN ExactCount(d, o)
    ELSE IF match_type = "whitespace_flexible" THEN WhitespaceCount(d, o)
    ELSE TokenCount(d, o)

\* C20: every result of perform_replacement has content and match_type present
\* and error absent when success is true, and error present and content and
\* match_type absent when success is false; and success is true only if the
\* match count of a tier, the one match_type names, equals expected_count.
C20_ResultInvariant ==
    Replaced =>
        /\ Result.success \in BOOLEAN
        /\ Result.success =>
               /\ Result.content # None
               /\ Result.match_type # None
               /\ Result.error = None
               /\ Result.match_type[1] \in {"exact", "whitespace_flexible", "token"}
               /\ TierCount(Arg.content, Arg.old_str, Result.match_type[1])
                      = Arg.expected_count
        /\ ~Result.success =>
               /\ Result.error # None
               /\ Result.content = None
               /\ Result.match_type = None

\* a failure on a document that holds old_str, but not expected_count times in
\* any tier
C20_FailureDespiteMatches ==
    /\ Replaced
    /\ ~Result.success
    /\ Result.error # None
    /\ Result.error[1].exact = 2
    /\ Result.error[1].expected = 1

\* ----------------------------------------------------- ReviewService

\* in the progress specifications the clock counts half days
TicksPerDay == 2

\* settings.review_initial_interval, review_multiplier and review_max_interval
\* (days), scaled down
review_initial_interval == 1
review_multiplier == 2
review_max_interval == 3

RECURSIVE pow(_, _)
pow(b, n) == IF n = 0 THEN 1 ELSE b * pow(b, n - 1)

\* datetime.replace(hour=0, minute=0, second=0, microsecond=0)
midnight(t) == (t \div TicksPerDay) * TicksPerDay

calculate_next_review(from_date, review_count) ==
    Let([interval_days \in {Min(review_initial_interval * pow(review_multiplier, review_count),
                                review_max_interval)} |->
    midnight(from_date + interval_days * TicksPerDay)])

\* --------------------------------------------------- ProgressService

\* settings.progress_path, as an absolute path
progress_path == <<<<"p">>>>

DOT_JSON == <<".", "j", "s", "o", "n">>

\* self.progress_path / f"{category}.json"
progress_file_path(category) == Append(progress_path, category \o DOT_JSON)

ProgressEntry(name, status, comment, updated_at, mastered_at, review_count, next_review_at) ==
    [name |-> name, status |-> status, comment |-> comment, updated_at |-> updated_at,
     mastered_at |-> mastered_at, review_count |-> review_count,
     next_review_at |-> next_review_at]

ProgressFile(category, last_updated, entries) ==
    [category |-> category, last_updated |-> last_updated, entries |-> entries]

\* an empty dict of entries
NoEntries == [k \in {} |-> 0]

load_progress_file(f, category, t) ==
    Let([file_path \in {progress_file_path(category)} |->
    IF ~path_exists(f, file_path)
    THEN [exc |-> "", progress |-> ProgressFile(category, t, NoEntries)]
    ELSE Let([r \in {read_node(f, file_path)} |->
         IF r.exc # "" THEN [exc |-> r.exc]
         ELSE IF r.node.t # "json" THEN [exc |-> "JSONDecodeError"]
         ELSE [exc |-> "", progress |-> r.node.meta]])])

\* the temporary file of _save_progress_file is written
save_progress_tmp(f, category, progress) ==
    Let([d \in {makedirs(f, progress_path)} |->
    IF d.exc # "" THEN d ELSE
    write_node(d.fs, with_suffix(progress_file_path(category), TMP), Json(progress))])

\* the temporary file of _save_progress_file is renamed to the progress file
save_progress_replace(f, category) ==
    replace_node(f, with_suffix(progress_file_path(category), TMP),
                 progress_file_path(category))

save_progress_file(f, category, progress) ==
    Let([w \in {save_progress_tmp(f, category, progress)} |->
    IF w.exc # "" THEN w ELSE save_progress_replace(w.fs, category)])

update_mastered_at(existing, old_status, new_status, t) ==
    IF new_status = "done" /\ old_status # "done" THEN Some(t) ELSE existing.mastered_at

\* a faulty _update_review_count: every move to done counts as a review
update_review_count_on_done(existing, old_status, new_status) ==
    IF new_status = "done" THEN existing.review_count + 1 ELSE existing.review_count

update_review_count(existing, old_status, new_status) ==
    IF old_status = "review" /\ new_status = "done"
    THEN existing.review_count + 1
    ELSE existing.review_count

update_next_review(existing, old_status, new_status, t) ==
    IF new_status # "done" THEN None
    ELSE Some(calculate_next_review(t,
             IF old_status = "review" THEN existing.review_count + 1
             ELSE existing.review_count))

\* lines 107-142 of update_progress: the loaded file with the entry set, or the
\* ValueError; name is None or Some(name)
update_entry(progress, progress_id, status, name, comment, t) ==
    IF progress_id \notin DOMAIN progress.entries
    THEN IF name = None \/ name[1] = <<>>
         THEN [exc |-> "ValueError"]
         ELSE Let([entry \in {ProgressEntry(name[1], status, comment, t,
                                  IF status = "done" THEN Some(t) ELSE None, 0,
                                  IF status = "done"
                                  THEN Some(calculate_next_review(t, 0)) ELSE None)} |->
              [exc |-> "",
               progress |-> ProgressFile(progress.category, t,
                                (progress_id :> entry) @@ progress.entries),
               ret |-> <<entry, TRUE, None>>]])
    ELSE Let([existing \in {progress.entries[progress_id]} |->
         Let([entry \in {ProgressEntry(
                             IF name = None \/ name[1] = <<>> THEN existing.name
                             ELSE name[1],
                             status, comment, t,
                             update_mastered_at(existing, existing.status, status, t),
                             update_review_count(existing, existing.status, status),
                             update_next_review(existing, existing.status, status, t))} |->
         [exc |-> "",
          progress |-> ProgressFile(progress.category, t,
                           (progress_id :> entry) @@ progress.entries),
          ret |-> <<entry, FALSE, Some(existing.status)>>]])])

update_progress(f, category, progress_id, status, name, comment, t) ==
    Let([l \in {load_progress_file(f, category, t)} |->
    IF l.exc # "" THEN [exc |-> l.exc, fs |-> f] ELSE
    Let([u \in {update_entry(l.progress, progress_id, status, name, comment, t)} |->
    IF u.exc # "" THEN [exc |-> u.exc, fs |-> f] ELSE
    Let([w \in {save_progress_file(f, category, u.progress)} |->
    IF w.exc # "" THEN w ELSE [exc |-> "", fs |-> w.fs, ret |-> u.ret]])])])

\* lines 318-322 of delete_progress: the loaded file without the entry
delete_entry(progress, progress_id, t) ==
    ProgressFile(progress.category, t,
        [k \in DOMAIN progress.entries \ {progress_id} |-> progress.entries[k]])

delete_progress(f, category, progress_id, t) ==
    Let([l \in {load_progress_file(f, category, t)} |->
    IF l.exc # "" THEN [exc |-> l.exc, fs |-> f]
    ELSE IF progress_id \notin DOMAIN l.progress.entries
    THEN [exc |-> "", fs |-> f, ret |-> None]
    ELSE Let([w \in {save_progress_file(f, category,
                         delete_entry(l.progress, progress_id, t))} |->
         IF w.exc # "" THEN w
         ELSE [exc |-> "", fs |-> w.fs, ret |-> Some(l.progress.entries[progress_id])]])])

\* a faulty _check_review_triggers: every done entry is put to review, due or not
check_review_triggers_all_done(progress, t) ==
    Let([due \in {{k \in DOMAIN progress.entries :
                      progress.entries[k].status = "done"}} |->
    [updated |-> due # {},
     progress |-> ProgressFile(progress.category, progress.last_updated,
                      [k \in DOMAIN progress.entries |->
                          IF k \in due
                          THEN ProgressEntry(progress.entries[k].name, "review",
                                   progress.entries[k].comment, t,
                                   progress.entries[k].mastered_at,
                                   progress.entries[k].review_count,
                                   progress.entries[k].next_review_at)
                          ELSE progress.entries[k]])]])

\* the entries after _check_review_triggers, and whether any was updated
check_review_triggers(progress, t) ==
    Let([due \in {{k \in DOMAIN progress.entries :
                      /\ progress.entries[k].status = "done"
                      /\ progress.entries[k].next_review_at # None
                      /\ t >= progress.entries[k].next_review_at[1]}} |->
    [updated |-> due # {},
     progress |-> ProgressFile(progress.category, progress.last_updated,
                      [k \in DOMAIN progress.entries |->
                          IF k \in due
                          THEN ProgressEntry(progress.entries[k].name, "review",
                                   progress.entries[k].comment, t,
                                   progress.entries[k].mastered_at,
                                   progress.entries[k].review_count,
                                   progress.entries[k].next_review_at)
                          ELSE progress.entries[k]])]])

\* get_progress with its default filters, which let every entry through
get_progress(f, category, t) ==
    Let([l \in {load_progress_file(f, category, t)} |->
    IF l.exc # "" THEN [exc |-> l.exc, fs |-> f] ELSE
    Let([c \in {check_review_triggers(l.progress, t)} |->
    IF ~c.updated THEN [exc |-> "", fs |-> f, ret |-> c.progress]
    ELSE Let([w \in {save_progress_file(f, category, c.progress)} |->
         IF w.exc # "" THEN w ELSE [exc |-> "", fs |-> w.fs, ret |-> c.progress]])])])

get_full_progress(f, category, t) ==
    Let([l \in {load_progress_file(f, category, t)} |->
    IF l.exc # "" THEN l ELSE [exc |-> "", ret |-> l.progress]])

UpdateProgress(category, progress_id, status, name, comment) ==
    \E r \in {update_progress(fs, category, progress_id, status, name, comment, now)} :
    /\ fs' = r.fs
    /\ last' = Call("update_progress", progress_id, <<>>,
                    <<category, status, name, comment>>, r)
    /\ UNCHANGED now

DeleteProgress(category, progress_id) ==
    \E r \in {delete_progress(fs, category, progress_id, now)} :
    /\ fs' = r.fs
    /\ last' = Call("delete_progress", progress_id, <<>>, <<category>>, r)
    /\ UNCHANGED now

GetProgress(category) ==
    \E r \in {get_progress(fs, category, now)} :
    /\ fs' = r.fs
    /\ last' = Call("get_progress", <<>>, <<>>, <<category>>, r)
    /\ UNCHANGED now

\* ------------------------- SpecProgress: the entries of one category

\* the clock of the progress specifications runs from 1 to MaxProgressTime
MaxProgressTime == 6

ENTRY_X == <<"x">>
ProgressIds == {ENTRY_X}

ProgressStatus == {"active", "done", "review", "pending"}

\* the names given: none, or one
Names == {None, Some(<<"n">>)}

\* the entries of the category's progress file, as get_full_progress returns them
Entries(f) == get_full_progress(f, CATEGORY, 0).ret.entries

\* no more successful reviews of an entry are played than this
MaxReviewCount == 2

ProgressUpdate ==
    /\ \E k \in ProgressIds, st \in ProgressStatus, n \in Names :
           UpdateProgress(CATEGORY, k, st, n, <<>>)
    /\ \A k \in DOMAIN Entries(fs') : Entries(fs')[k].review_count <= MaxReviewCount
    /\ UNCHANGED trail

ProgressDelete == (\E k \in ProgressIds : DeleteProgress(CATEGORY, k)) /\ UNCHANGED trail

ProgressGet == GetProgress(CATEGORY) /\ UNCHANGED trail

\* half a day passes
ProgressTick ==
    /\ now < MaxProgressTime
    /\ now' = now + 1
    /\ UNCHANGED <<fs, last, trail>>

ProgressNext == ProgressUpdate \/ ProgressDelete \/ ProgressGet \/ ProgressTick

SpecProgress == Init /\ [][ProgressNext]_vars

\* C22: an entry's review_count goes up by exactly one when update_progress
\* moves it from review to done, and is left as it was by every other
\* update_progress, by get_progress (the automatic done-to-review transition
\* included) and by every other step that keeps the entry; so it never decreases.
C22_ReviewCount ==
    [][\A k \in ProgressIds :
           (k \in DOMAIN Entries(fs) /\ k \in DOMAIN Entries(fs'))
           => Entries(fs')[k].review_count =
                  Entries(fs)[k].review_count
                  + (IF /\ Called("update_progress")
                        /\ last'.exc = ""
                        /\ last'.progress_id = k
                        /\ Entries(fs)[k].status = "review"
                        /\ last'.args[2] = "done"
                     THEN 1 ELSE 0)]_vars

\* an entry is moved from review to done for the second time
C22_ReviewedTwice ==
    /\ last.op = "update_progress"
    /\ last.exc = ""
    /\ last.ret[1][3] = Some("review")
    /\ last.ret[1][1].status = "done"
    /\ last.ret[1][1].review_count = 2
    /\ Entries(fs)[ENTRY_X].review_count = 2

\* ----------------------- SpecProgressPair: two entries of one category

ENTRY_Y == <<"y">>

PairUpdate ==
    /\ \E k \in {ENTRY_X, ENTRY_Y}, st \in ProgressStatus :
           UpdateProgress(CATEGORY, k, st, Some(<<"n">>), <<>>)
    /\ \A k \in DOMAIN Entries(fs') : Entries(fs')[k].review_count <= MaxReviewCount
    /\ UNCHANGED trail

PairGet == GetProgress(CATEGORY) /\ UNCHANGED trail

PairTick == Tick /\ UNCHANGED trail

PairNext == PairUpdate \/ PairGet \/ PairTick

SpecProgressPair == Init /\ [][PairNext]_vars

\* the entry is done and its review is due at time t
Due(e, t) == e.status = "done" /\ e.next_review_at # None /\ e.next_review_at[1] <= t

\* C23: get_progress changes every entry of the category that is done and whose
\* next_review_at is at or before the current time to review, in the progress
\* file; the entries that are not done, or done and not yet due, keep their
\* status, and no entry is added or removed.
C23_ReviewTrigger ==
    [][(Called("get_progress") /\ Succeeded)
       => /\ DOMAIN Entries(fs') = DOMAIN Entries(fs)
          /\ \A k \in DOMAIN Entries(fs) :
                 Entries(fs')[k].status =
                     IF Due(Entries(fs)[k], now) THEN "review" ELSE Entries(fs)[k].status
          /\ last'.ret[1].entries = Entries(fs')]_vars

\* get_progress has put one entry to review and left the other, done and not yet
\* due, as it was
C23_OneDueOneNot ==
    /\ last.op = "get_progress"
    /\ last.exc = ""
    /\ DOMAIN Entries(fs) = {ENTRY_X, ENTRY_Y}
    /\ Entries(fs)[ENTRY_X].status = "review"
    /\ Entries(fs)[ENTRY_X].updated_at = now
    /\ Entries(fs)[ENTRY_X].next_review_at # None
    /\ Entries(fs)[ENTRY_X].next_review_at[1] <= now
    /\ Entries(fs)[ENTRY_Y].status = "done"
    /\ Entries(fs)[ENTRY_Y].next_review_at[1] > now

\* ------------------------------ concurrent calls of ProgressService
\* asyncio.gather runs the calls as tasks of one event loop: a task runs until
\* it awaits a file operation or a lock, and then another task may run.  trail
\* holds the tasks.

\* a call of update_progress, delete_progress or get_progress that has not run yet
ProgressTask(op, category, progress_id, status, name, comment) ==
    [op |-> op, category |-> category, progress_id |-> progress_id, status |-> status,
     name |-> name, comment |-> comment, pc |-> "start", progress |-> None,
     exc |-> "", ret |-> None]

\* the calls that take _category_locks[category]
LOCKED_OPS == {"update_progress", "delete_progress"}

\* a faulty lock: it is granted to every task that asks
category_lock_free_always(tasks, category) == TRUE

\* _category_locks[category] is not held: no task is inside the async with block
category_lock_free(tasks, category) ==
    \A j \in 1..Len(tasks) :
        ~(/\ tasks[j].op \in LOCKED_OPS
          /\ tasks[j].category = category
          /\ tasks[j].pc \in {"load", "tmp", "replace"})

\* the task returns or raises; leaving the async with block releases the lock
task_done(w, exc, ret) == [w EXCEPT !.pc = "done", !.exc = exc, !.ret = ret]

\* what the task does with the file it loaded, up to the first await of
\* _save_progress_file
task_loaded(w, progress, t) ==
    IF w.op = "update_progress"
    THEN Let([u \in {update_entry(progress, w.progress_id, w.status, w.name,
                                  w.comment, t)} |->
         IF u.exc # "" THEN task_done(w, u.exc, None)
         ELSE [w EXCEPT !.pc = "tmp", !.progress = Some(u.progress),
                        !.ret = Some(u.ret)]])
    ELSE IF w.op = "delete_progress"
    THEN IF w.progress_id \notin DOMAIN progress.entries
         THEN task_done(w, "", Some(None))
         ELSE [w EXCEPT !.pc = "tmp",
                        !.progress = Some(delete_entry(progress, w.progress_id, t)),
                        !.ret = Some(Some(progress.entries[w.progress_id]))]
    ELSE Let([c \in {check_review_triggers(progress, t)} |->
         IF ~c.updated THEN task_done(w, "", Some(c.progress))
         ELSE [w EXCEPT !.pc = "tmp", !.progress = Some(c.progress),
                        !.ret = Some(c.progress)]])

\* the task runs from one await to the next: the file system and the task after
progress_step(f, w, t) ==
    IF w.pc = "start" THEN [fs |-> f, task |-> [w EXCEPT !.pc = "load"]]
    ELSE IF w.pc = "load"
    THEN Let([l \in {load_progress_file(f, w.category, t)} |->
         [fs |-> f,
          task |-> IF l.exc # "" THEN task_done(w, l.exc, None)
                   ELSE task_loaded(w, l.progress, t)]])
    ELSE IF w.pc = "tmp"
    THEN Let([r \in {save_progress_tmp(f, w.category, w.progress[1])} |->
         [fs |-> r.fs,
          task |-> IF r.exc # "" THEN task_done(w, r.exc, None)
                   ELSE [w EXCEPT !.pc = "replace"]]])
    ELSE Let([r \in {save_progress_replace(f, w.category)} |->
         [fs |-> r.fs,
          task |-> IF r.exc # "" THEN task_done(w, r.exc, None)
                   ELSE task_done(w, "", w.ret)]])

\* the event loop runs task i, which is not waiting for the lock
TaskStep ==
    \E i \in 1..Len(trail) :
        /\ trail[i].pc # "done"
        /\ (trail[i].pc = "start" /\ trail[i].op \in LOCKED_OPS)
               => category_lock_free(trail, trail[i].category)
        /\ \E r \in {progress_step(fs, trail[i], now)} :
               /\ fs' = r.fs
               /\ trail' = [trail EXCEPT ![i] = r.task]
        /\ UNCHANGED <<now, last>>

\* ------------- SpecProgressLock: a batch of updates and deletions

\* no more calls than this run in one batch
MaxTasks == 3

\* the progress file before the batch: entry x waits for its review
LockStartFS ==
    update_progress(EmptyFS, CATEGORY, ENTRY_X, "review", Some(<<"n">>), <<>>, 1).fs

\* the calls a batch is made of
LockCalls ==
    {ProgressTask("update_progress", CATEGORY, ENTRY_X, "done", None, <<>>),
     ProgressTask("update_progress", CATEGORY, ENTRY_X, "review", None, <<"r">>),
     ProgressTask("update_progress", CATEGORY, ENTRY_Y, "active", Some(<<"n">>), <<>>),
     ProgressTask("delete_progress", CATEGORY, ENTRY_X, "", None, <<>>),
     ProgressTask("delete_progress", CATEGORY, ENTRY_Y, "", None, <<>>)}

InitLock ==
    /\ fs = LockStartFS
    /\ now = 2
    /\ last = NoCall
    /\ \E n \in 2..MaxTasks : trail \in [1..n -> LockCalls]

SpecProgressLock == InitLock /\ [][TaskStep]_vars

\* the call of a task, run alone
call_alone(f, w, t) ==
    IF w.op = "update_progress"
    THEN update_progress(f, w.category, w.progress_id, w.status, w.name, w.comment, t)
    ELSE IF w.op = "delete_progress"
    THEN delete_progress(f, w.category, w.progress_id, t)
    ELSE get_progress(f, w.category, t)

RECURSIVE OneByOne(_, _, _, _)
\* the file system after the tasks ran alone, one after the other, in the order
\* given
OneByOne(f, tasks, order, t) ==
    IF order = <<>> THEN f
    ELSE OneByOne(call_alone(f, tasks[Head(order)], t).fs, tasks, Tail(order), t)

\* the orders in which n tasks can run
Orders(n) == {o \in [1..n -> 1..n] : \A i, j \in 1..n : o[i] = o[j] => i = j}

AllDone == trail # <<>> /\ \A i \in 1..Len(trail) : trail[i].pc = "done"

ReadStartFS ==
    update_progress(EmptyFS, CATEGORY, ENTRY_X, "done", Some(<<"n">>), <<>>, 1).fs

\* the update or deletion that runs beside get_progress
ReadCalls ==
    {ProgressTask("update_progress", CATEGORY, ENTRY_X, "active", None, <<"r">>),
     ProgressTask("update_progress", CATEGORY, ENTRY_Y, "active", Some(<<"n">>), <<>>),
     ProgressTask("delete_progress", CATEGORY, ENTRY_X, "", None, <<>>)}

InitRead ==
    /\ fs = ReadStartFS
    /\ now \in {1, 2}
    /\ last = NoCall
    /\ \E w \in ReadCalls :
           trail = <<ProgressTask("get_progress", CATEGORY, <<>>, "", None, <<>>), w>>

SpecProgressRead == InitRead /\ [][TaskStep]_vars

\* the progress file holds what the update or deletion of the task did
Committed(f, w) ==
    IF w.op = "update_progress"
    THEN /\ w.progress_id \in DOMAIN Entries(f)
         /\ Entries(f)[w.progress_id].status = w.status
         /\ Entries(f)[w.progress_id].comment = w.comment
    ELSE w.progress_id \notin DOMAIN Entries(f)

\* C30: when get_progress has run concurrently with an update_progress or
\* delete_progress on the same category and both have finished, the progress
\* file still holds the effect of the update or deletion.
C30_UpdateSurvivesRead ==
    AllDone =>
        \A i \in 1..Len(trail) :
            (trail[i].op \in LOCKED_OPS /\ trail[i].exc = "")
            => Committed(fs, trail[i])

\* --------------------------- concurrent calls of WorkspaceService
\* Two calls run as tasks of one event loop, each from one await to the next.
\* trail holds the tasks: the frame of each call, the exception that ended it
\* and the path where the file it has open for writing now is (None when that
\* file is no longer in any directory).

\* a call of write_file (args: content) or edit_file (args: old_string,
\* new_string, expected_replacements) that has not run yet
RaceTask(op, progress_id, file_path, args) ==
    [w |-> Frame(op, progress_id, file_path, args, <<>>, FALSE, <<>>, <<>>, "", "start",
                 EmptyFS),
     exc |-> "", handle |-> None]

\* the call up to its first write
race_begin(f, category, w) ==
    IF w.op = "write_file"
    THEN write_file_begin(f, category, w.progress_id, w.file_path, w.args[1])
    ELSE edit_file_begin(f, category, w.progress_id, w.file_path, w.args[1], w.args[2],
                         w.args[3])

\* what a file holds after content is written at its start: the content, and
\* what was there beyond its length
overlay(content, old) == content \o SubSeq(old, Len(content) + 1, Len(old))

\* a file holding part of one JSON text and part of another
GARBLED == Txt(<<"{">>)

\* the nodes a file that held old may hold after node is written at its start
\* through an open handle
written_over(node, old) ==
    IF old = Txt(<<>>) THEN {node}
    ELSE IF node.t = "txt" /\ old.t = "txt" THEN {Txt(overlay(node.c, old.c))}
    ELSE {node, GARBLED}

\* f.write through the handle of the task, which is then closed: the file
\* systems that may result
write_through_handle(f, task, node) ==
    IF task.handle = None \/ task.handle[1] \notin DOMAIN f THEN {f}
    ELSE {[f EXCEPT ![task.handle[1]] = n] : n \in written_over(node, f[task.handle[1]])}

\* the handles after os.replace(src, dst): the file that was at src is at dst,
\* the file that was at dst is in no directory
handles_moved(tasks, src, dst) ==
    [j \in 1..Len(tasks) |->
        IF tasks[j].handle = Some(src) THEN [tasks[j] EXCEPT !.handle = Some(dst)]
        ELSE IF tasks[j].handle = Some(dst) THEN [tasks[j] EXCEPT !.handle = None]
        ELSE tasks[j]]

\* the task ends with the exception, or goes on with the frame
race_settle(tasks, i, r) ==
    IF r.exc # ""
    THEN [tasks EXCEPT ![i].exc = r.exc, ![i].w.pc = "done"]
    ELSE [tasks EXCEPT ![i].w = r.frame]

\* task i runs from one await to the next: the file systems and tasks that may
\* result
race_step(f, category, tasks, i, t) ==
    Let([w \in {tasks[i].w} |->
    Let([ws \in {get_workspace_path(category, w.progress_id)} |->
    IF w.pc = "start"
    THEN Let([r \in {race_begin(f, category, w)} |->
         {[fs |-> r.fs, tasks |-> race_settle(tasks, i, r)]}])
    ELSE IF w.pc \in {"meta_write", "file_write"}
    THEN {[fs |-> g,
           tasks |-> [tasks EXCEPT ![i].handle = None,
                                   ![i].w.pc = IF w.pc = "meta_write"
                                               THEN "meta_replace"
                                               ELSE "file_replace"]] :
             g \in write_through_handle(f, tasks[i],
                       IF w.pc = "meta_write" THEN Json(w.meta) ELSE Txt(w.content))}
    ELSE Let([r \in {step(f, category, w, t)} |->
         Let([tmp \in {with_suffix(IF w.pc \in {"meta_open", "meta_replace"}
                                   THEN meta_path(ws, w.file_path)
                                   ELSE w.full_path, TMP)} |->
         Let([settled \in {race_settle(tasks, i, r)} |->
         {[fs |-> r.fs,
           tasks |-> IF r.exc # "" THEN settled
                     ELSE IF w.pc \in {"meta_open", "file_open"}
                     THEN [settled EXCEPT ![i].handle = Some(tmp)]
                     ELSE IF w.pc = "meta_replace"
                     THEN handles_moved(settled, tmp, meta_path(ws, w.file_path))
                     ELSE IF w.pc = "file_replace"
                     THEN handles_moved(settled, tmp, w.full_path)
                     ELSE settled]}])])])])])

\* the event loop runs one of the tasks
RaceStep ==
    \E i \in 1..Len(trail) :
        /\ trail[i].w.pc # "done"
        /\ \E r \in race_step(fs, CATEGORY, trail, i, now) :
               /\ fs' = r.fs
               /\ trail' = r.tasks
        /\ UNCHANGED <<now, last>>

RaceTick == Tick /\ UNCHANGED trail

RaceNext == RaceStep \/ RaceTick

\* ----------------- SpecRace: two calls at once on one file of a workspace

TEXT_CC == <<"c", "c">>

\* the workspace holds note.md, created at millisecond 1 with the text "a"
RaceStartFS == write_file(EmptyFS, CATEGORY, PID, NOTE_MD, TEXT_A, 1).fs

RaceCalls ==
    {RaceTask("write_file", PID, NOTE_MD, <<TEXT_B>>),
     RaceTask("write_file", PID, NOTE_MD, <<TEXT_CC>>),
     RaceTask("edit_file", PID, NOTE_MD, <<<<"a">>, <<"b">>, 1>>)}

InitRace ==
    /\ fs = RaceStartFS
    /\ now = 2
    /\ last = NoCall
    /\ trail \in [1..2 -> RaceCalls]

SpecRace == InitRace /\ [][RaceNext]_vars

\* every call of the batch has returned or raised
RaceOver == \A i \in 1..Len(trail) : trail[i].w.pc = "done"

\* C24: when two write_file or edit_file calls run at once on the same file,
\* whatever the interleaving of their steps, both calls complete and the file
\* ends with all of the content of one of them, never a mixture or a part.
C24_LastRenameWins ==
    RaceOver =>
        /\ \A i \in 1..Len(trail) : trail[i].exc = ""
        /\ NOTE_PATH \in DOMAIN fs
        /\ \E i \in 1..Len(trail) : fs[NOTE_PATH] = Txt(trail[i].w.content)

\* ------------- SpecRacePair: two calls at once on two files of a workspace

NOTE_TXT == <<"n", "o", "t", "e", ".", "t", "x", "t">>
TODO_MD == <<"t", "o", "d", "o", ".", "m", "d">>

\* one call on note.md, which is there, and a write_file that creates another
\* file of the workspace
InitRacePair ==
    /\ fs = RaceStartFS
    /\ now = 2
    /\ last = NoCall
    /\ \E first \in RaceCalls, file_path \in {NOTE_TXT, TODO_MD}, c \in {TEXT_B, TEXT_CC} :
           trail = <<first, RaceTask("write_file", PID, file_path, <<c>>)>>

SpecRacePair == InitRacePair /\ [][RaceNext]_vars

\* the file of the call holds the content the call wrote, and the ledger of the
\* file lists the snapshot the call saved
OwnEffect(f, w) ==
    /\ w.full_path \in DOMAIN f
    /\ f[w.full_path] = Txt(w.content)
    /\ Let([m \in {read_meta(f, get_workspace_path(CATEGORY, w.progress_id), w.file_path)} |->
           /\ m.exc = ""
           /\ \E k \in 1..Len(m.meta.versions) :
                  /\ m.meta.versions[k].version_id = w.version_id
                  /\ m.meta.versions[k].operation = w.snap_op])

\* C25: when two calls run at once on two different files of one workspace,
\* whatever the interleaving, both complete without error, each file ends with
\* the content its own call wrote, and each ledger holds the entry its own call
\* saved.
C25_FilesIndependent ==
    RaceOver => \A i \in 1..Len(trail) : trail[i].exc = "" /\ OwnEffect(fs, trail[i].w)

\* the same, for two files whose names differ before the suffix
C25_OtherStem ==
    (RaceOver /\ trail[2].w.file_path = TODO_MD) =>
        \A i \in 1..Len(trail) : trail[i].exc = "" /\ OwnEffect(fs, trail[i].w)

\* ------------------------------------------- claims on the calls that fail

\* the errors of the checks: not found, path escape, size limit, is a directory
CheckErrors == {"FileNotFoundError", "PathEscape", "TooLarge", "IsADirectoryError"}

\* C26: a call that fails with a not-found, path-escape, size-limit or
\* is-a-directory error leaves the file system as it was: no file, directory,
\* ledger or snapshot is created, changed or removed by it.
C26_ChecksPrecedeMutation ==
    [][(last'.seq # last.seq /\ last'.exc \in CheckErrors) => fs' = fs]_vars

\* ------- SpecLedger: the file of Spec, in a workspace where a file was written
\* under the name of its ledger

\* .history/note.md.history.json
NOTE_LEDGER == HISTORY_DIR \o <<"/">> \o NOTE_MD \o HISTORY_JSON

\* the workspace is empty, or write_file(".history/note.md.history.json", "a")
\* was called in it at millisecond 1
InitLedger ==
    /\ fs \in {EmptyFS, write_file(EmptyFS, CATEGORY, PID, NOTE_LEDGER, TEXT_A, 1).fs}
    /\ now = 1
    /\ last = NoCall
    /\ trail = <<>>

SpecLedger == InitLedger /\ [][Next]_vars

\* C27: delete_file on a regular file that exists always ends with the file
\* removed and no error raised; every failure to take the snapshot before the
\* deletion (content that cannot be decoded, a read error, a failure while the
\* snapshot or its ledger is saved) is passed over and never stops the deletion.
C27_DeleteBestEffort ==
    [][(Called("delete_file") /\ NOTE_PATH \in DOMAIN fs /\ fs[NOTE_PATH].t # "dir")
       => last'.exc = "" /\ NOTE_PATH \notin DOMAIN fs']_vars

\* ---------------- SpecGrow: the file of Spec, with an edit that lengthens it

TEXT_BBBB == <<"b", "b", "b", "b">>

\* the edits asked for: the one of Spec, and one whose new_string is longer than
\* max_file_size
GrowEdits == Edits \cup {<<<<"a">>, TEXT_BBBB, 1>>}

GrowEdit == \E e \in GrowEdits : EditFile(PID, NOTE_MD, e[1], e[2], e[3]) /\ UNCHANGED trail

GrowRead == ReadFile(PID, NOTE_MD, None, None) /\ UNCHANGED trail

GrowNext == WriteNote \/ GrowEdit \/ RollbackNote \/ GrowRead \/ ClockTick

SpecGrow == Init /\ [][GrowNext]_vars

\* C28: after any sequence of write_file, edit_file and rollback_file calls the
\* file the service wrote is no larger than max_file_size bytes of UTF-8, so
\* that read_file reads it back.
C28_SizeCeiling ==
    IsText(fs) =>
        /\ utf8_len(FileText(fs)) <= MaxFileSize
        /\ read_file(fs, CATEGORY, PID, NOTE_MD, None, None).exc = ""

\* ------------------- SpecFrame: the files of one workspace, call after call

NOTE_TMP == <<"n", "o", "t", "e", ".", "t", "m", "p">>

FramePaths == {NOTE_MD, NOTE_TMP, TODO_MD}

FrameWrite ==
    /\ Len(trail) < MaxCalls
    /\ \E p \in FramePaths, c \in {TEXT_A, TEXT_B} : WriteFile(PID, p, c)
    /\ trail' = Append(trail, last')

FrameEdit ==
    /\ Len(trail) < MaxCalls
    /\ \E p \in FramePaths, e \in Edits : EditFile(PID, p, e[1], e[2], e[3])
    /\ trail' = Append(trail, last')

FrameTick == Len(trail) < MaxCalls /\ Tick /\ UNCHANGED trail

FrameNext == FrameWrite \/ FrameEdit \/ FrameTick

SpecFrame == Init /\ [][FrameNext]_vars

\* the user files of the workspace: what it holds outside .history that is not a
\* directory
UserFiles(f) ==
    {p \in DOMAIN f : /\ IsUnder(p, WS)
                      /\ ~IsUnder(p, history_root(WS))
                      /\ p # history_root(WS)
                      /\ f[p].t # "dir"}

\* C29: a write_file or edit_file on file P that succeeds changes no other user
\* file of the workspace (one with the stem of P and the suffix .tmp included):
\* each is still there with the content it had, and no temporary file is left.
C29_WriteFrame ==
    [][((Called("write_file") \/ Called("edit_file")) /\ Succeeded) =>
           Let([P \in {joinpath(WS, last'.file_path)} |->
               /\ \A q \in UserFiles(fs) \ {P} : q \in DOMAIN fs' /\ fs'[q] = fs[q]
               /\ UserFiles(fs') \subseteq UserFiles(fs) \cup {P}])]_vars

====
